---- MODULE Spec2Model ----
(***************************************************************************)
(* Social-housing intake backend: reference-number sequence, document     *)
(* repositories, blob storage and the DocumentService processing pipeline *)
(* (upload, process, reprocess, replacement upload, override, delete).    *)
(* An asynchronous service method is cut into one action per stretch of   *)
(* synchronous code between two awaits; confidences are percentages.      *)
(***************************************************************************)
EXTENDS Integers, Sequences, FiniteSets, TLC

\* ---------------------------------------------------------------- bounds
MaxCreates == 4
MaxOps == 3
MaxOverlapOps == 2
MaxTicks == 1

\* ------------------------------------------------------ program constants
classificationThreshold == 70
maxFileSize == 10485760
allowedMimeTypes ==
  {"application/pdf", "image/jpeg", "image/png", "image/webp", "image/gif"}
validCategories ==
  {"identity", "income", "bank_statement", "welfare_benefit", "medical",
   "tenancy", "proof_of_address", "other", "unknown"}
ProcessingStatuses ==
  {"uploaded", "classifying", "classified", "extracting", "extracted",
   "validation_failed", "completed", "error"}

Null == "null"
\* an optional value (undefined / NULL column) is the empty set
None == {}
Some(x) == {x}
The(o) == CHOOSE x \in o : TRUE
Creators == {"p1", "p2"}
Callers == {"r1", "r2"}
Years == {2025, 2026}

VARIABLES
  year,               \* calendar year of the wall clock
  today,              \* day number of the wall clock
  sequences,          \* table sequences: name (year) -> current_value
  applications,       \* table applications: id -> row
  creating,           \* ApplicationRepository.create calls in flight
  documents,          \* table documents: id -> row
  documentVersions,   \* table document_versions (set of rows)
  extractionVersions, \* table extraction_versions (set of rows)
  processingLog,      \* table processing_log: a bag of rows (row -> count)
  blobs,              \* object storage: key -> content
  call,               \* DocumentService / controller calls in flight
  ops,                \* number of service calls started so far
  uuids,              \* number of document ids handed out by uuidv4
  serial,             \* TRUE when the surrounding service serialises calls
  trace,              \* processing_status writes of the last step
  input,              \* arguments of a function under evaluation
  output              \* its result, once it has returned

vars == <<year, today, sequences, applications, creating, documents,
          documentVersions, extractionVersions, processingLog, blobs,
          call, ops, uuids, serial, trace, input, output>>

refVars == <<year, sequences, applications, creating>>
docVars == <<today, documents, documentVersions, extractionVersions,
             processingLog, blobs, call, ops, uuids, serial, trace,
             input, output>>

\* ------------------------------------------------------------- helpers
Max(S) == CHOOSE x \in S : \A y \in S : y <= x

RECURSIVE DescSeq(_)
DescSeq(S) == IF S = {} THEN <<>> ELSE <<Max(S)>> \o DescSeq(S \ {Max(S)})

Range(s) == {s[i] : i \in 1..Len(s)}

RECURSIVE SumOver(_, _)
SumOver(f, S) ==
  IF S = {} THEN 0
  ELSE LET k == CHOOSE x \in S : TRUE IN f[k] + SumOver(f, S \ {k})

\* Number.prototype.toString: the decimal digits of n, most significant first
RECURSIVE toString(_)
toString(n) == IF n < 10 THEN <<n>> ELSE toString(n \div 10) \o <<n % 10>>

\* String.prototype.padStart(width, '0')
RECURSIVE padStart(_, _)
padStart(s, width) == IF Len(s) >= width THEN s ELSE padStart(<<0>> \o s, width)

\* `SH-${year}-${sequenceNumber.toString().padStart(4, '0')}`
ReferenceNumber(y, n) == <<"SH", y, padStart(toString(n), 4)>>

\* the transaction of generateReferenceNumber: UPDATE ... + 1, or INSERT 1
NextSequenceSkewed(seqs, name) ==
  IF name \in DOMAIN seqs
    THEN [seqs EXCEPT ![name] = @ + 1]
    ELSE [n \in DOMAIN seqs \cup {name} |-> IF n = name THEN 0 ELSE seqs[n]]

NextSequence(seqs, name) ==
  IF name \in DOMAIN seqs
    THEN [seqs EXCEPT ![name] = @ + 1]
    ELSE [n \in DOMAIN seqs \cup {name} |-> IF n = name THEN 1 ELSE seqs[n]]

\* --------------------------------------------- application creation
NoCreate == [pc |-> "idle", referenceNumber |-> <<>>]

Issued == Cardinality(DOMAIN applications)
         + Cardinality({p \in Creators : creating[p].pc = "insert"})

\* ApplicationRepository.create, up to the end of generateReferenceNumber
GenerateReferenceNumber(p) ==
  /\ creating[p].pc = "idle"
  /\ Issued < MaxCreates
  /\ sequences' = NextSequence(sequences, year)
  /\ creating' = [creating EXCEPT ![p] =
        [pc |-> "insert",
         referenceNumber |-> ReferenceNumber(year, sequences'[year])]]
  /\ UNCHANGED <<year, applications>>
  /\ UNCHANGED docVars

\* ApplicationRepository.create: INSERT INTO applications ... 'draft'
InsertApplication(p) ==
  /\ creating[p].pc = "insert"
  /\ LET id == Cardinality(DOMAIN applications) + 1
     IN applications' =
          [a \in DOMAIN applications \cup {id} |->
             IF a = id
               THEN [referenceNumber |-> creating[p].referenceNumber,
                     status |-> "draft",
                     requiresSupport |-> FALSE,
                     checklist |-> None]
               ELSE applications[a]]
  /\ creating' = [creating EXCEPT ![p] = NoCreate]
  /\ UNCHANGED <<year, sequences>>
  /\ UNCHANGED docVars

\* the wall clock passes into the next calendar year
NewYear ==
  /\ year + 1 \in Years
  /\ year' = year + 1
  /\ UNCHANGED <<sequences, applications, creating>>
  /\ UNCHANGED docVars


\* ------------------------------------------------------- storage keys
cluid == "c1"
TheApplication == "a1"

\* replace(/[^a-zA-Z0-9._-]/g,'_').replace(/_+/g,'_').toLowerCase()
sanitizeFileName(fileName) ==
  CASE fileName = "ID Card.pdf" -> "id_card.pdf"
    [] fileName = "id_card.pdf" -> "id_card.pdf"
    [] fileName = "Payslip.PDF" -> "payslip.pdf"
    [] fileName = "payslip.pdf" -> "payslip.pdf"
    [] OTHER -> fileName

\* `${cluid}/${applicationId}/documents/v${version}/${sanitizedFileName}`
generateDocumentKey(cl, applicationId, fileName, version) ==
  <<cl, applicationId, "documents", version, sanitizeFileName(fileName)>>

\* `${cluid}/${applicationId}/extractions/${documentId}/v${version}.json`
generateExtractionKey(cl, applicationId, documentId, version) ==
  <<cl, applicationId, "extractions", documentId, version>>

\* S3 PutObject / DeleteObject on the bucket
PutBlob(store, key, body) ==
  [k \in DOMAIN store \cup {key} |-> IF k = key THEN body ELSE store[k]]

DeleteBlob(store, key) == [k \in DOMAIN store \ {key} |-> store[k]]

\* ------------------------------------------------ document repository
NewDocument(applicationId, fileName, s3Key) ==
  [applicationId |-> applicationId, cluid |-> cluid,
   fileName |-> sanitizeFileName(fileName), originalFileName |-> fileName,
   s3Key |-> s3Key, version |-> 1, category |-> "unknown",
   classificationConfidence |-> 0, processingStatus |-> "uploaded",
   extractedData |-> None, extractionVersion |-> 0, completenessScore |-> 0]

CreateDocument(docs, id, row) ==
  [d \in DOMAIN docs \cup {id} |-> IF d = id THEN row ELSE docs[d]]

UpdateProcessingStatus(docs, id, status) ==
  IF id \in DOMAIN docs
    THEN [docs EXCEPT ![id].processingStatus = status]
    ELSE docs

UpdateClassification(docs, id, category, confidence) ==
  IF id \in DOMAIN docs
    THEN [docs EXCEPT ![id].category = category,
                      ![id].classificationConfidence = confidence,
                      ![id].processingStatus = "classified"]
    ELSE docs

UpdateExtractionStale(docs, id, extractedData, completenessScore) ==
  IF id \in DOMAIN docs
    THEN [docs EXCEPT ![id].extractedData = Some(extractedData),
                      ![id].completenessScore = completenessScore,
                      ![id].processingStatus = "extracted"]
    ELSE docs

UpdateExtraction(docs, id, extractedData, completenessScore) ==
  IF id \in DOMAIN docs
    THEN [docs EXCEPT ![id].extractedData = Some(extractedData),
                      ![id].extractionVersion = @ + 1,
                      ![id].completenessScore = completenessScore,
                      ![id].processingStatus = "extracted"]
    ELSE docs

IncrementVersionKeyOnly(docs, id, newS3Key) ==
  IF id \in DOMAIN docs THEN [docs EXCEPT ![id].s3Key = newS3Key] ELSE docs

IncrementVersion(docs, id, newS3Key) ==
  IF id \in DOMAIN docs
    THEN [docs EXCEPT ![id].version = @ + 1, ![id].s3Key = newS3Key]
    ELSE docs

\* DELETE FROM documents WHERE id = ?
DeleteDocumentRow(docs, id) == [d \in DOMAIN docs \ {id} |-> docs[d]]

CascadeRowsKept(rows, id) == rows

\* ON DELETE CASCADE of document_versions / extraction_versions
CascadeRows(rows, id) == {r \in rows : r.documentId # id}

\* ON DELETE CASCADE of processing_log
CascadeLog(log, id) ==
  [e \in {x \in DOMAIN log : x.documentId # id} |-> log[e]]

\* one processing_status write, as seen by an observer of the column
StatusWrite(docs, id, status, by) ==
  IF id \in DOMAIN docs
    THEN <<[documentId |-> id, from |-> docs[id].processingStatus,
            to |-> status, by |-> by]>>
    ELSE <<>>

\* DocumentVersionRepository.findByDocumentId: ORDER BY version DESC
RECURSIVE SortByVersionDesc(_)
SortByVersionDesc(rows) ==
  IF rows = {} THEN <<>>
  ELSE LET top == CHOOSE r \in rows : \A q \in rows : q.version <= r.version
       IN <<top>> \o SortByVersionDesc(rows \ {top})

FindVersionsByDocumentId(rows, id) ==
  SortByVersionDesc({r \in rows : r.documentId = id})

LogEntry(documentId, applicationId, action, status, errorMessage) ==
  [documentId |-> documentId, applicationId |-> applicationId,
   action |-> action, status |-> status, errorMessage |-> errorMessage]

\* ProcessingLogRepository.log: INSERT INTO processing_log
InsertLog(log, entry) ==
  [e \in DOMAIN log \cup {entry} |->
     IF e = entry
       THEN (IF entry \in DOMAIN log THEN log[entry] + 1 ELSE 1)
       ELSE log[e]]

LogCount(log) == SumOver(log, DOMAIN log)


\* ------------------------------------------- classification stage
\* what the vision model may answer to a classification call
ClassificationAnswers ==
  {[ok |-> FALSE, category |-> Null, confidence |-> 0],
   [ok |-> TRUE, category |-> "identity", confidence |-> 70],
   [ok |-> TRUE, category |-> "income", confidence |-> 69]}

Clamp(lo, hi, x) == IF x < lo THEN lo ELSE IF x > hi THEN hi ELSE x

\* the number NaN, which is what a missing (undefined) confidence becomes
\* in arithmetic; it stands outside the range of every confidence
NaN == 0 - 1000

\* Math.max(0, Math.min(1, confidence)) passes NaN on
validateClassificationResult(result) ==
  [category |-> IF result.category \in validCategories
                  THEN result.category ELSE "unknown",
   confidence |-> IF result.confidence = NaN THEN NaN
                  ELSE Clamp(0, 100, result.confidence),
   failed |-> FALSE]

\* never raises: a failed model call yields unknown / 0
classifyDocument(answer) ==
  IF answer.ok
    THEN validateClassificationResult(answer)
    ELSE [category |-> "unknown", confidence |-> 0, failed |-> TRUE]

\* ---- classifyPdfDocument
highConfidence == 85
maxPages == 3
alternativeThreshold == 30
maxAlternatives == 2

Plus(a, b) == IF a = NaN \/ b = NaN THEN NaN ELSE a + b

GreaterOrEqual(a, b) == a # NaN /\ b # NaN /\ a >= b

\* a > b is false when either side is NaN
GreaterThan(a, b) == a # NaN /\ b # NaN /\ a > b

\* a / n: 0 / 0 and NaN / n are NaN; a quotient that is no whole
\* percentage is cut to the percentage below
Quotient(a, n) == IF a = NaN \/ n = 0 THEN NaN ELSE a \div n

\* categoryScores, a Map: the entries in the order their keys were first set
RECURSIVE ScoreCategories(_, _)
ScoreCategories(results, categoryScores) ==
  IF results = <<>> THEN categoryScores
  ELSE LET result == Head(results)
           at == {i \in DOMAIN categoryScores :
                    categoryScores[i].category = result.category}
           \* categoryScores.get(category) || 0
           currentScore ==
             IF at = {} THEN 0
             ELSE IF categoryScores[CHOOSE i \in at : TRUE].score = NaN
               THEN 0
             ELSE categoryScores[CHOOSE i \in at : TRUE].score
           entry == [category |-> result.category,
                     score |-> Plus(currentScore, result.confidence)]
       IN ScoreCategories(Tail(results),
            IF at = {} THEN Append(categoryScores, entry)
            ELSE [categoryScores EXCEPT ![CHOOSE i \in at : TRUE] = entry])

RECURSIVE BestEntry(_, _)
BestEntry(categoryScores, best) ==
  IF categoryScores = <<>> THEN best
  ELSE BestEntry(Tail(categoryScores),
         IF GreaterThan(Head(categoryScores).score, best.score)
           THEN Head(categoryScores) ELSE best)

RECURSIVE SumConfidence(_)
SumConfidence(results) ==
  IF results = <<>> THEN 0
  ELSE Plus(SumConfidence(SubSeq(results, 1, Len(results) - 1)),
            results[Len(results)].confidence)

\* Array.prototype.sort by (a, b) => b.confidence - a.confidence: stable
RECURSIVE SortByConfidenceDesc(_)
SortByConfidenceDesc(list) ==
  IF list = <<>> THEN <<>>
  ELSE LET first ==
             CHOOSE i \in DOMAIN list :
               /\ \A j \in DOMAIN list :
                    list[j].confidence <= list[i].confidence
               /\ \A j \in 1..(i - 1) :
                    list[j].confidence < list[i].confidence
       IN <<list[first]>>
            \o SortByConfidenceDesc(
                 [j \in 1..(Len(list) - 1) |->
                    IF j < first THEN list[j] ELSE list[j + 1]])

getAlternativeCategories(categoryScores, bestCategory) ==
  LET kept(entry) == /\ entry.category # bestCategory
                     /\ GreaterThan(entry.score, alternativeThreshold)
      alternatives ==
        [i \in DOMAIN SelectSeq(categoryScores, kept) |->
           [category |-> SelectSeq(categoryScores, kept)[i].category,
            confidence |->
              IF SelectSeq(categoryScores, kept)[i].score > 100 THEN 100
              ELSE SelectSeq(categoryScores, kept)[i].score]]
      sorted == SortByConfidenceDesc(alternatives)
  IN SubSeq(sorted, 1, IF Len(sorted) < maxAlternatives
                         THEN Len(sorted) ELSE maxAlternatives)

aggregateClassifications(results) ==
  LET categoryScores == ScoreCategories(results, <<>>)
      best == BestEntry(categoryScores, [category |-> "unknown", score |-> 0])
      sameCategory(r) == r.category = best.category
      relevantResults == SelectSeq(results, sameCategory)
  IN [category |-> best.category,
      confidence |-> Quotient(SumConfidence(relevantResults),
                              Len(relevantResults)),
      failed |-> FALSE,
      alternativeCategories |->
        getAlternativeCategories(categoryScores, best.category)]

\* pages are the model's answers for the pages, in page order
classifyPdfDocument(pages) ==
  IF Len(pages) = 0
    THEN [category |-> "unknown", confidence |-> 0, failed |-> FALSE]
  ELSE IF \/ (/\ classifyDocument(pages[1]).confidence # NaN
               /\ classifyDocument(pages[1]).confidence >= highConfidence)
          \/ Len(pages) = 1
    THEN classifyDocument(pages[1])
  ELSE aggregateClassifications(
         [i \in 1..(IF Len(pages) < maxPages THEN Len(pages) ELSE maxPages)
            |-> classifyDocument(pages[i])])

\* ----------------------------------------------- extraction stage
\* dates are month numbers; 0 stands for a null value
NoFields == [expiryDate |-> 0, documentDate |-> 0]

\* what the extraction call may yield: failure, or fields with their score
ExtractionAnswers ==
  {[ok |-> FALSE, completenessScore |-> 0, fields |-> NoFields],
   [ok |-> TRUE, completenessScore |-> 100,
    fields |-> [expiryDate |-> 20, documentDate |-> 9]],
   [ok |-> TRUE, completenessScore |-> 50,
    fields |-> [expiryDate |-> 5, documentDate |-> 5]]}

\* never raises: a failed call yields success = false
extractDocument(answer, category) ==
  IF answer.ok
    THEN [success |-> TRUE, documentType |-> category,
          fields |-> answer.fields,
          completenessScore |-> answer.completenessScore]
    ELSE [success |-> FALSE, documentType |-> category,
          fields |-> NoFields, completenessScore |-> 0]

\* the guard of step 2 of processDocument
ShouldExtractLenient(classification) == classification.category # "unknown"

ShouldExtract(classification) ==
  /\ classification.category # "unknown"
  /\ classification.confidence >= classificationThreshold

\* ----------------------------------------------- checklist engine
minMonthsCoverage == 3
maxAgeMonths == 3

Item(required, status, ids, issues) ==
  [required |-> required, status |-> status,
   documentIds |-> DescSeq(ids), issues |-> issues]

PendingOrVerified(required, ids, issues) ==
  Item(required, IF issues # {} THEN "pending" ELSE "verified", ids, issues)

evaluateIdentityDocuments(docs, ids, now) ==
  IF ids = {}
    THEN Item(TRUE, "missing", {}, {<<0, "No identity document uploaded">>})
    ELSE
      LET failed == {d \in ids : docs[d].processingStatus
                                   \in {"error", "validation_failed"}}
          lowConfidence ==
            {d \in ids \ failed : docs[d].classificationConfidence < 70}
          expired ==
            {d \in ids \ failed :
               /\ docs[d].extractedData # None
               /\ The(docs[d].extractedData).fields.expiryDate # 0
               /\ The(docs[d].extractedData).fields.expiryDate < now}
          validDocs == (ids \ failed) \ expired
          incomplete == {d \in validDocs : docs[d].completenessScore < 70}
          issues ==
            {<<d, "Processing failed">> : d \in failed}
              \cup {<<d, "Low classification confidence">> : d \in lowConfidence}
              \cup {<<d, "Document has expired">> : d \in expired}
              \cup {<<d, "Incomplete data extraction">> : d \in incomplete}
      IN IF Cardinality(validDocs) < 1
           THEN Item(TRUE, "issues", ids,
                     IF issues # {} THEN issues
                     ELSE {<<0, "Valid identity document required">>})
           ELSE PendingOrVerified(TRUE, ids, issues)

evaluateIncomeDocuments(docs, ids) ==
  IF ids = {}
    THEN Item(TRUE, "missing", {}, {<<0, "No income documents uploaded">>})
    ELSE PendingOrVerified(TRUE, ids,
           {<<d, "Missing key income information">> :
               d \in {x \in ids : docs[x].completenessScore < 70}}
             \cup (IF Cardinality(ids) < minMonthsCoverage
                     THEN {<<0, "Recommend months of payslips">>} ELSE {}))

evaluateBankStatements(docs, ids) ==
  IF ids = {}
    THEN Item(TRUE, "missing", {}, {<<0, "Bank statements required">>})
    ELSE PendingOrVerified(TRUE, ids,
           {<<d, "Key statement details missing">> :
               d \in {x \in ids : docs[x].completenessScore < 60}}
             \cup (IF Cardinality(ids) < minMonthsCoverage
                     THEN {<<0, "months of statements recommended">>} ELSE {}))

evaluateProofOfAddress(docs, ids, now) ==
  IF ids = {}
    THEN Item(TRUE, "missing", {}, {<<0, "Proof of current address required">>})
    ELSE PendingOrVerified(TRUE, ids,
           {<<d, "Document is older than months">> :
               d \in {x \in ids :
                        /\ docs[x].extractedData # None
                        /\ The(docs[x].extractedData).fields.documentDate # 0
                        /\ The(docs[x].extractedData).fields.documentDate
                             < now - maxAgeMonths}})

evaluateWelfareBenefit(docs, ids) ==
  IF ids = {}
    THEN Item(FALSE, "missing", {}, {})
    ELSE PendingOrVerified(FALSE, ids,
           {<<d, "Missing benefit details">> :
               d \in {x \in ids : docs[x].completenessScore < 70}})

evaluateMedicalEvidence(docs, ids, requiresSupport) ==
  IF ids = {}
    THEN Item(requiresSupport, "missing", {},
              IF requiresSupport
                THEN {<<0, "Medical evidence required">>} ELSE {})
    ELSE Item(requiresSupport, "verified", ids, {})

evaluateTenancy(docs, ids) ==
  IF ids = {}
    THEN Item(FALSE, "missing", {}, {})
    ELSE PendingOrVerified(FALSE, ids,
           {<<d, "Missing tenancy details">> :
               d \in {x \in ids : docs[x].completenessScore < 60}})

\* docs: the rows of findByApplicationId, grouped by category
evaluateChecklist(docs, requiresSupport, now) ==
  LET of(category) == {d \in DOMAIN docs : docs[d].category = category}
  IN [identity |-> evaluateIdentityDocuments(docs, of("identity"), now),
      income |-> evaluateIncomeDocuments(docs, of("income")),
      bankStatements |-> evaluateBankStatements(docs, of("bank_statement")),
      proofOfAddress |->
        evaluateProofOfAddress(docs, of("proof_of_address"), now),
      welfareBenefit |-> evaluateWelfareBenefit(docs, of("welfare_benefit")),
      medicalEvidence |->
        evaluateMedicalEvidence(docs, of("medical"), requiresSupport),
      tenancyAgreement |-> evaluateTenancy(docs, of("tenancy"))]

ChecklistKeys ==
  {"identity", "income", "bankStatements", "proofOfAddress",
   "welfareBenefit", "medicalEvidence", "tenancyAgreement"}

\* ---- IEEE 754 double arithmetic, as far as `(achieved / total) * 100`
\* and Math.round need it. A positive double is its significand, a list of
\* significandBits bits starting with 1, and the power of two the
\* significand is scaled by; zero has the empty significand.
significandBits == 53

Zero == [significand |-> <<>>, exponent |-> 0]

RECURSIVE Increment(_)
Increment(bits) ==
  IF bits = <<>> THEN <<1>>
  ELSE IF bits[Len(bits)] = 0 THEN [bits EXCEPT ![Len(bits)] = 1]
  ELSE Increment(SubSeq(bits, 1, Len(bits) - 1)) \o <<0>>

\* round to nearest, ties to even: kept are the leading significandBits
\* bits, tail says how the discarded rest compares with half a unit
RoundToNearestEven(kept, exponent, tail) ==
  LET up == tail = "above" \/ (tail = "half" /\ kept[Len(kept)] = 1)
      raised == Increment(kept)
  IN IF ~up THEN [significand |-> kept, exponent |-> exponent]
     ELSE IF Len(raised) > Len(kept)
       THEN [significand |-> SubSeq(raised, 1, Len(kept)),
             exponent |-> exponent + 1]
     ELSE [significand |-> raised, exponent |-> exponent]

RECURSIVE QuotientBits(_, _, _, _)
QuotientBits(remainder, divisor, n, bits) ==
  IF n = 0 THEN [bits |-> bits, remainder |-> remainder]
  ELSE IF 2 * remainder >= divisor
    THEN QuotientBits(2 * remainder - divisor, divisor, n - 1,
                      Append(bits, 1))
  ELSE QuotientBits(2 * remainder, divisor, n - 1, Append(bits, 0))

RECURSIVE Doublings(_, _)
Doublings(n, d) == IF n >= d THEN 0 ELSE 1 + Doublings(2 * n, d)

RECURSIVE Power2(_)
Power2(k) == IF k = 0 THEN 1 ELSE 2 * Power2(k - 1)

\* the double nearest to n / d, for integers 0 <= n <= d, 0 < d
DoubleDivide(n, d) ==
  IF n = 0 THEN Zero
  ELSE LET k == Doublings(n, d)
           q == QuotientBits(n * Power2(k) - d, d, significandBits - 1, <<1>>)
           tail == IF 2 * q.remainder > d THEN "above"
                   ELSE IF 2 * q.remainder = d THEN "half" ELSE "below"
       IN RoundToNearestEven(q.bits, 0 - k - (significandBits - 1), tail)

RECURSIVE BitsOf(_)
BitsOf(n) == IF n = 0 THEN <<>> ELSE Append(BitsOf(n \div 2), n % 2)

RECURSIVE ProductBits(_, _, _, _)
ProductBits(bits, factor, carry, low) ==
  IF bits = <<>> THEN BitsOf(carry) \o low
  ELSE ProductBits(SubSeq(bits, 1, Len(bits) - 1), factor,
                   (bits[Len(bits)] * factor + carry) \div 2,
                   <<(bits[Len(bits)] * factor + carry) % 2>> \o low)

\* the double nearest to x * factor, for a small positive integer factor
DoubleTimes(x, factor) ==
  IF x.significand = <<>> THEN Zero
  ELSE LET product == ProductBits(x.significand, factor, 0, <<>>)
           extra == Len(product) - significandBits
           rest == SubSeq(product, significandBits + 1, Len(product))
           tail == IF extra = 0 \/ rest[1] = 0 THEN "below"
                   ELSE IF \E i \in 2..extra : rest[i] = 1 THEN "above"
                   ELSE "half"
       IN RoundToNearestEven(SubSeq(product, 1, significandBits),
                             x.exponent + extra, tail)

RECURSIVE ValueOf(_)
ValueOf(bits) ==
  IF bits = <<>> THEN 0
  ELSE 2 * ValueOf(SubSeq(bits, 1, Len(bits) - 1)) + bits[Len(bits)]

\* Math.round of a non-negative double below 2^31: floor(x + 1/2)
MathRound(x) ==
  LET fraction == 0 - x.exponent
      whole == Len(x.significand) - fraction
  IN IF x.significand = <<>> \/ whole < 0 THEN 0
     ELSE IF fraction <= 0
       THEN ValueOf(x.significand) * Power2(0 - fraction)
     ELSE ValueOf(SubSeq(x.significand, 1, whole)) + x.significand[whole + 1]

\* weights are counted in quarters so that 0.5 and 0.25 stay integral; the
\* items are those of Object.entries
calculateOverallCompleteness(checklist) ==
  LET counted == {k \in DOMAIN checklist :
                    checklist[k].required \/ checklist[k].status # "missing"}
      weight == [k \in DOMAIN checklist |->
                   IF checklist[k].required THEN 8 ELSE 4]
      achieved == [k \in DOMAIN checklist |->
                     CASE checklist[k].status = "verified" -> weight[k]
                       [] checklist[k].status = "pending" -> weight[k] \div 2
                       [] checklist[k].status = "issues" -> weight[k] \div 4
                       [] OTHER -> 0]
      totalWeight == SumOver(weight, counted)
      achievedWeight == SumOver(achieved, counted)
  IN IF totalWeight > 0
       THEN MathRound(DoubleTimes(DoubleDivide(achievedWeight, totalWeight),
                                  100))
       ELSE 0

getMissingDocumentsLenient(checklist) ==
  {k \in ChecklistKeys : checklist[k].status = "missing"}

getMissingDocuments(checklist) ==
  {k \in ChecklistKeys :
     checklist[k].required /\ checklist[k].status = "missing"}

updateApplicationChecklistUnsaved(apps, docs, applicationId, now) == apps

\* DocumentService.updateApplicationChecklist (the application exists)
updateApplicationChecklist(apps, docs, applicationId, now) ==
  LET rows == [d \in {x \in DOMAIN docs :
                        docs[x].applicationId = applicationId} |-> docs[d]]
      checklist ==
        evaluateChecklist(rows, apps[applicationId].requiresSupport, now)
      status ==
        IF getMissingDocuments(checklist) # {} THEN "documents_pending"
        ELSE IF calculateOverallCompleteness(checklist) < 100
          THEN "documents_review"
          ELSE "eligibility_check"
  IN [apps EXCEPT ![applicationId].checklist = Some(checklist),
                  ![applicationId].status = status]


\* ------------------------------------------------ service calls
UploadFiles ==
  {[name |-> "ID Card.pdf", size |-> maxFileSize, mimeType |-> "application/pdf"],
   [name |-> "ID Card.pdf", size |-> maxFileSize + 1, mimeType |-> "image/png"],
   [name |-> "ID Card.pdf", size |-> 1, mimeType |-> "text/plain"]}

OverrideCategories == {"income"}

\* DocumentService.validateFile: TRUE when it does not throw
validateFile(file) ==
  /\ ~(file.size > maxFileSize)
  /\ file.mimeType \in allowedMimeTypes

NoCall ==
  [op |-> "none", pc |-> "idle", documentId |-> 0,
   document |-> None, file |-> None, newVersion |-> 0, s3Key |-> <<>>,
   processImmediately |-> TRUE, classification |-> None,
   extraction |-> None, extractionVersion |-> 0, errors |-> <<>>,
   pending |-> <<>>, processResult |-> None, outcome |-> Null,
   error |-> Null]

Idle(c) == call[c].pc \in {"idle", "done"}

\* a returned call is visible in the state it returns in; its frame is
\* gone at the next step
Swept == [o \in Callers |-> IF call[o].pc = "done" THEN NoCall ELSE call[o]]

\* a request slot may start a call (the first idle slot takes it); under
\* serial no other call is in flight
Free(c) ==
  /\ Idle(c)
  /\ ops < (IF serial THEN MaxOps ELSE MaxOverlapOps)
  /\ serial => \A o \in Callers \ {c} : Idle(o)
  /\ c = "r2" => ~Idle("r1")

Begin(c, op, documentId) ==
  [NoCall EXCEPT !.op = op, !.documentId = documentId]

Returned(rec, processResult) ==
  [rec EXCEPT !.pc = "done", !.outcome = "returned",
              !.processResult = processResult]

Raised(rec, message) ==
  [rec EXCEPT !.pc = "done", !.outcome = "raised", !.error = message]

NotFoundResult ==
  Some([success |-> FALSE, errors |-> <<"Document not found">>])

\* the `document` constant held by processDocument
Snapshot(row) ==
  [applicationId |-> row.applicationId, cluid |-> row.cluid,
   s3Key |-> row.s3Key]

\* processDocument up to its first await (the document exists)
EnterPipeline(rec, docs) ==
  [rec EXCEPT !.pc = "fetch",
              !.document = Some(Snapshot(docs[rec.documentId]))]

\* the catch block of processDocument, entered with the rows as they stand
CatchDocuments(docs, rec) ==
  UpdateProcessingStatus(docs, rec.documentId, "error")

CatchLog(log, docs, rec, message) ==
  IF rec.documentId \in DOMAIN docs
    THEN InsertLog(log, LogEntry(rec.documentId, The(rec.document).applicationId,
                              "processing", "failed", message))
    ELSE log

CatchCall(docs, rec, message) ==
  IF rec.documentId \in DOMAIN docs
    THEN Returned(rec, Some([success |-> FALSE,
                             errors |-> Append(rec.errors, message)]))
    ELSE Raised(rec, "FOREIGN KEY constraint failed")

CatchTrace(docs, rec) == StatusWrite(docs, rec.documentId, "error", "catch")

\* ---- uploadDocument
UploadDocumentStart(c, file, immediate) ==
  /\ Free(c)
  /\ ops' = ops + 1
  /\ call' = [Swept EXCEPT ![c] =
       IF validateFile(file)
         THEN [Begin(c, "upload", 0) EXCEPT
                 !.pc = "put", !.file = Some(file),
                 !.processImmediately = immediate,
                 !.s3Key = generateDocumentKey(cluid, TheApplication,
                                               file.name, 1)]
         ELSE Raised([Begin(c, "upload", 0) EXCEPT !.file = Some(file)],
                     "File rejected")]
  /\ trace' = <<>>
  /\ UNCHANGED <<today, documents, documentVersions, extractionVersions,
                 processingLog, blobs, uuids, serial>>
  /\ UNCHANGED refVars

UploadDocumentStored(c, ok) ==
  LET old == call[c]
      id == uuids + 1
      rec == [old EXCEPT !.file = None, !.documentId = id]
      docs1 == CreateDocument(documents, id,
                 NewDocument(TheApplication, The(old.file).name, rec.s3Key))
  IN /\ rec.op = "upload" /\ rec.pc = "put"
     /\ trace' = <<>>
     /\ IF ok
          THEN /\ blobs' = PutBlob(blobs, rec.s3Key, c)
               /\ documents' = docs1
               /\ documentVersions' = documentVersions \cup
                    {[documentId |-> id, version |-> 1, s3Key |-> rec.s3Key,
                      createdBy |-> Null]}
               /\ processingLog' = InsertLog(processingLog,
                    LogEntry(id, TheApplication, "upload", "completed", Null))
               /\ call' = [Swept EXCEPT ![c] =
                    IF rec.processImmediately
                      THEN EnterPipeline(rec, docs1)
                      ELSE Returned(rec, None)]
               /\ uuids' = id
          ELSE /\ call' = [Swept EXCEPT ![c] = Raised(old, "Upload failed")]
               /\ UNCHANGED <<blobs, documents, documentVersions,
                              processingLog, uuids>>
     /\ UNCHANGED <<today, extractionVersions, ops, serial>>
     /\ UNCHANGED refVars

\* ---- processDocument called directly (POST /documents/:id/process)
ProcessDocumentStart(c, d) ==
  /\ Free(c)
  /\ ops' = ops + 1
  /\ call' = [Swept EXCEPT ![c] =
       IF d \in DOMAIN documents
         THEN EnterPipeline(Begin(c, "process", d), documents)
         ELSE Returned(Begin(c, "process", d), NotFoundResult)]
  /\ trace' = <<>>
  /\ UNCHANGED <<today, documents, documentVersions, extractionVersions,
                 processingLog, blobs, uuids, serial>>
  /\ UNCHANGED refVars

\* ---- reprocessDocument
ReprocessDocumentStart(c, d) ==
  LET docs1 == UpdateProcessingStatus(documents, d, "uploaded")
  IN /\ Free(c)
     /\ ops' = ops + 1
     /\ IF d \in DOMAIN documents
          THEN /\ documents' = docs1
               /\ trace' = StatusWrite(documents, d, "uploaded", "reprocess")
               /\ call' = [Swept EXCEPT ![c] =
                    EnterPipeline(Begin(c, "reprocess", d), docs1)]
          ELSE /\ call' = [Swept EXCEPT ![c] =
                    Returned(Begin(c, "reprocess", d), NotFoundResult)]
               /\ trace' = <<>>
               /\ UNCHANGED documents
     /\ UNCHANGED <<today, documentVersions, extractionVersions,
                    processingLog, blobs, uuids, serial>>
     /\ UNCHANGED refVars

\* ---- DocumentController.overrideClassification
OverrideClassificationStart(c, d, category, reprocess) ==
  LET docs1 == UpdateClassification(documents, d, category, 100)
      docs2 == UpdateProcessingStatus(docs1, d, "uploaded")
  IN /\ Free(c)
     /\ ops' = ops + 1
     /\ IF d \in DOMAIN documents
          THEN IF reprocess
                 THEN /\ documents' = docs2
                      /\ trace' =
                           StatusWrite(documents, d, "classified", "override")
                           \o StatusWrite(docs1, d, "uploaded", "reprocess")
                      /\ call' = [Swept EXCEPT ![c] =
                           EnterPipeline(Begin(c, "override", d), docs2)]
                 ELSE /\ documents' = docs1
                      /\ trace' =
                           StatusWrite(documents, d, "classified", "override")
                      /\ call' = [Swept EXCEPT ![c] =
                           Returned(Begin(c, "override", d), None)]
          ELSE /\ call' = [Swept EXCEPT ![c] =
                    Returned(Begin(c, "override", d), NotFoundResult)]
               /\ trace' = <<>>
               /\ UNCHANGED documents
     /\ UNCHANGED <<today, documentVersions, extractionVersions,
                    processingLog, blobs, uuids, serial>>
     /\ UNCHANGED refVars

\* ---- updateDocumentVersion
UpdateDocumentVersionStart(c, d, file) ==
  /\ Free(c)
  /\ ops' = ops + 1
  /\ call' = [Swept EXCEPT ![c] =
       IF d \in DOMAIN documents
         THEN [Begin(c, "updateVersion", d) EXCEPT
                 !.pc = "putVersion", !.file = Some(file),
                 !.newVersion = documents[d].version + 1,
                 !.s3Key = generateDocumentKey(documents[d].cluid,
                             documents[d].applicationId,
                             documents[d].fileName,
                             documents[d].version + 1)]
         ELSE Raised(Begin(c, "updateVersion", d), "Document not found")]
  /\ trace' = <<>>
  /\ UNCHANGED <<today, documents, documentVersions, extractionVersions,
                 processingLog, blobs, uuids, serial>>
  /\ UNCHANGED refVars

\* after `await storageService.uploadDocument`; the caller's name stands for
\* the bytes it sent and for the createdBy it passed
UpdateDocumentVersionStored(c, ok) ==
  LET rec == [call[c] EXCEPT !.file = None]
      d == rec.documentId
      docs1 == IncrementVersion(documents, d, rec.s3Key)
      row == [documentId |-> d, version |-> rec.newVersion,
              s3Key |-> rec.s3Key, createdBy |-> c]
      duplicate == \E r \in documentVersions :
                      r.documentId = d /\ r.version = rec.newVersion
  IN /\ rec.op = "updateVersion" /\ rec.pc = "putVersion"
     /\ trace' = <<>>
     /\ IF ok
          THEN /\ blobs' = PutBlob(blobs, rec.s3Key, c)
               /\ documents' = docs1
               /\ IF d \notin DOMAIN documents
                    THEN /\ call' = [Swept EXCEPT ![c] =
                              Raised(rec, "FOREIGN KEY constraint failed")]
                         /\ UNCHANGED documentVersions
                    ELSE IF duplicate
                      THEN /\ call' = [Swept EXCEPT ![c] =
                                Raised(rec, "UNIQUE constraint failed")]
                           /\ UNCHANGED documentVersions
                      ELSE /\ documentVersions' = documentVersions \cup {row}
                           /\ call' = [Swept EXCEPT ![c] =
                                EnterPipeline(rec, docs1)]
          ELSE /\ call' = [Swept EXCEPT ![c] = Raised(rec, "Upload failed")]
               /\ UNCHANGED <<blobs, documents, documentVersions>>
     /\ UNCHANGED <<today, extractionVersions, processingLog, ops, uuids, serial>>
     /\ UNCHANGED refVars


\* ---- processDocument, after `await storageService.getDocumentAsBase64`
Fetched(c, ok) ==
  LET rec == call[c]
      d == rec.documentId
  IN /\ rec.pc = "fetch"
     /\ ok => The(rec.document).s3Key \in DOMAIN blobs
     /\ IF ok
          THEN /\ documents' = UpdateProcessingStatus(documents, d, "classifying")
               /\ trace' = StatusWrite(documents, d, "classifying", "process")
               /\ call' = [Swept EXCEPT ![c].pc = "classify"]
               /\ UNCHANGED processingLog
          ELSE /\ documents' = CatchDocuments(documents, rec)
               /\ trace' = CatchTrace(documents, rec)
               /\ processingLog' =
                    CatchLog(processingLog, documents, rec, "Fetch failed")
               /\ call' = [Swept EXCEPT ![c] =
                    CatchCall(documents, rec, "Fetch failed")]
     /\ UNCHANGED <<today, documentVersions, extractionVersions, blobs,
                    ops, uuids, serial>>
     /\ UNCHANGED refVars

\* ---- processDocument, after `await classificationService.classifyDocument`
Classified(c, answer) ==
  LET rec == call[c]
      d == rec.documentId
      app == The(rec.document).applicationId
      classification == classifyDocument(answer)
      rec1 == [rec EXCEPT !.classification = Some(classification)]
      docs1 == UpdateClassification(documents, d, classification.category,
                                    classification.confidence)
      w1 == StatusWrite(documents, d, "classified", "process")
      log1 == InsertLog(processingLog,
                LogEntry(d, app, "classification", "completed", Null))
      extract == ShouldExtract(classification)
      docs2 == UpdateProcessingStatus(docs1, d,
                 IF extract THEN "extracting" ELSE "completed")
      w2 == StatusWrite(docs1, d,
              IF extract THEN "extracting" ELSE "completed", "process")
  IN /\ rec.pc = "classify"
     /\ IF d \notin DOMAIN documents
          THEN \* the classification log entry violates its foreign key
               /\ call' = [Swept EXCEPT ![c] =
                    CatchCall(documents, rec1, "FOREIGN KEY constraint failed")]
               /\ trace' = <<>>
               /\ UNCHANGED <<documents, processingLog, applications>>
          ELSE /\ documents' = docs2
               /\ trace' = w1 \o w2
               /\ IF extract
                    THEN /\ call' = [Swept EXCEPT ![c] =
                              [rec1 EXCEPT !.pc = "extract"]]
                         /\ processingLog' = log1
                         /\ UNCHANGED applications
                    ELSE /\ call' = [Swept EXCEPT ![c] =
                              [rec1 EXCEPT !.pc = "finish"]]
                         /\ processingLog' = InsertLog(log1,
                              LogEntry(d, app, "extraction", "completed", Null))
                         /\ applications' = updateApplicationChecklist(
                              applications, docs2, app, today)
     /\ UNCHANGED <<today, documentVersions, extractionVersions, blobs,
                    ops, uuids, serial>>
     /\ UNCHANGED <<year, sequences, creating>>

\* ---- processDocument, after `await extractionService.extractDocument`
Extracted(c, answer) ==
  LET rec == call[c]
      d == rec.documentId
      app == The(rec.document).applicationId
      extraction == extractDocument(answer, The(rec.classification).category)
      rec1 == [rec EXCEPT !.extraction = Some(extraction)]
      extractedData ==
        [documentType |-> extraction.documentType,
         confidence |-> The(rec.classification).confidence,
         fields |-> extraction.fields]
      docsOk == UpdateExtraction(documents, d, extractedData,
                                 extraction.completenessScore)
      newVersion == docsOk[d].extractionVersion
      row == [documentId |-> d, version |-> newVersion,
              extractedData |-> extractedData]
      duplicate == \E r \in extractionVersions :
                      r.documentId = d /\ r.version = newVersion
      docsFail == UpdateProcessingStatus(documents, d, "validation_failed")
      recFail == [rec1 EXCEPT !.errors = Append(@, "Extraction failed"),
                              !.pc = "finish"]
  IN /\ rec.pc = "extract"
     /\ IF d \notin DOMAIN documents
          THEN \* updatedDoc is null, or the log entry violates its key
               /\ call' = [Swept EXCEPT ![c] =
                    CatchCall(documents, rec1, "Document row is gone")]
               /\ trace' = <<>>
               /\ UNCHANGED <<documents, processingLog, applications,
                              extractionVersions>>
          ELSE IF extraction.success
            THEN IF duplicate
              THEN /\ documents' = CatchDocuments(docsOk, rec1)
                   /\ trace' = StatusWrite(documents, d, "extracted", "process")
                               \o CatchTrace(docsOk, rec1)
                   /\ processingLog' = CatchLog(processingLog, docsOk, rec1,
                                                "UNIQUE constraint failed")
                   /\ call' = [Swept EXCEPT ![c] =
                        CatchCall(docsOk, rec1, "UNIQUE constraint failed")]
                   /\ UNCHANGED <<applications, extractionVersions>>
              ELSE /\ documents' = docsOk
                   /\ trace' = StatusWrite(documents, d, "extracted", "process")
                   /\ extractionVersions' = extractionVersions \cup {row}
                   /\ call' = [Swept EXCEPT ![c] =
                        [rec1 EXCEPT !.pc = "artifact",
                                     !.extractionVersion = newVersion]]
                   /\ UNCHANGED <<processingLog, applications>>
            ELSE /\ documents' = docsFail
                 /\ trace' =
                      StatusWrite(documents, d, "validation_failed", "process")
                 /\ processingLog' = InsertLog(processingLog,
                      LogEntry(d, app, "extraction", "failed",
                               "Extraction failed"))
                 /\ applications' = updateApplicationChecklist(
                      applications, docsFail, app, today)
                 /\ call' = [Swept EXCEPT ![c] = recFail]
                 /\ UNCHANGED extractionVersions
     /\ UNCHANGED <<today, documentVersions, blobs, ops, uuids, serial>>
     /\ UNCHANGED <<year, sequences, creating>>

\* ---- processDocument, after `await storageService.uploadExtraction`
ArtifactStored(c, ok) ==
  LET rec == call[c]
      d == rec.documentId
      app == The(rec.document).applicationId
      key == generateExtractionKey(The(rec.document).cluid, app, d,
                                   rec.extractionVersion)
  IN /\ rec.pc = "artifact"
     /\ IF ok /\ d \in DOMAIN documents
          THEN /\ blobs' = PutBlob(blobs, key, The(rec.extraction).documentType)
               /\ processingLog' = InsertLog(processingLog,
                    LogEntry(d, app, "extraction", "completed", Null))
               /\ applications' = updateApplicationChecklist(
                    applications, documents, app, today)
               /\ call' = [Swept EXCEPT ![c].pc = "finish"]
               /\ trace' = <<>>
               /\ UNCHANGED documents
          ELSE /\ blobs' = IF ok THEN PutBlob(blobs, key,
                                        The(rec.extraction).documentType)
                           ELSE blobs
               /\ documents' = CatchDocuments(documents, rec)
               /\ trace' = CatchTrace(documents, rec)
               /\ processingLog' = CatchLog(processingLog, documents, rec,
                                            "Artifact upload failed")
               /\ call' = [Swept EXCEPT ![c] =
                    CatchCall(documents, rec, "Artifact upload failed")]
               /\ UNCHANGED applications
     /\ UNCHANGED <<today, documentVersions, extractionVersions, ops, uuids, serial>>
     /\ UNCHANGED <<year, sequences, creating>>

\* step 6: the status processDocument leaves behind
FinalStatusForced(status) == "completed"

FinalStatus(status) ==
  IF status # "validation_failed" THEN "completed" ELSE status

\* ---- processDocument, after `await this.updateApplicationChecklist`
Finish(c) ==
  LET rec == call[c]
      d == rec.documentId
      final == FinalStatus(documents[d].processingStatus)
  IN /\ rec.pc = "finish"
     /\ IF d \in DOMAIN documents
          THEN /\ documents' = UpdateProcessingStatus(documents, d, final)
               /\ trace' = IF final # documents[d].processingStatus
                             THEN StatusWrite(documents, d, final, "process")
                             ELSE <<>>
          ELSE /\ UNCHANGED documents
               /\ trace' = <<>>
     /\ call' = [Swept EXCEPT ![c] =
          Returned(rec, Some([success |-> TRUE, errors |-> rec.errors]))]
     /\ UNCHANGED <<today, documentVersions, extractionVersions,
                    processingLog, blobs, ops, uuids, serial>>
     /\ UNCHANGED refVars

\* ---- deleteDocument
DeleteDocumentStart(c, d) ==
  /\ Free(c)
  /\ ops' = ops + 1
  /\ call' = [Swept EXCEPT ![c] =
       IF d \in DOMAIN documents
         THEN [Begin(c, "delete", d) EXCEPT
                 !.pc = "deleting",
                 !.document = Some(Snapshot(documents[d])),
                 !.pending =
                   [i \in 1..Len(FindVersionsByDocumentId(documentVersions, d))
                      |-> FindVersionsByDocumentId(documentVersions, d)[i].s3Key]
                   \o <<documents[d].s3Key>>]
         ELSE Raised(Begin(c, "delete", d), "Document not found")]
  /\ trace' = <<>>
  /\ UNCHANGED <<today, documents, documentVersions, extractionVersions,
                 processingLog, blobs, uuids, serial>>
  /\ UNCHANGED refVars

\* after one `await storageService.deleteDocument(key)`
DeleteStored(c, ok) ==
  LET rec == call[c]
      d == rec.documentId
      docs1 == DeleteDocumentRow(documents, d)
  IN /\ rec.pc = "deleting"
     /\ trace' = <<>>
     /\ IF ~ok
          THEN /\ call' = [Swept EXCEPT ![c] = Raised(rec, "Delete failed")]
               /\ UNCHANGED <<blobs, documents, documentVersions,
                              extractionVersions, processingLog, applications>>
          ELSE /\ blobs' = DeleteBlob(blobs, Head(rec.pending))
               /\ IF Len(rec.pending) > 1
                    THEN /\ call' = [Swept EXCEPT ![c].pending = Tail(@)]
                         /\ UNCHANGED <<documents, documentVersions,
                                        extractionVersions, processingLog,
                                        applications>>
                    ELSE /\ documents' = docs1
                         /\ documentVersions' = CascadeRows(documentVersions, d)
                         /\ extractionVersions' =
                              CascadeRows(extractionVersions, d)
                         /\ processingLog' = CascadeLog(processingLog, d)
                         /\ applications' = updateApplicationChecklist(
                              applications, docs1,
                              The(rec.document).applicationId, today)
                         /\ call' = [Swept EXCEPT ![c] =
                              Returned([rec EXCEPT !.pending = <<>>], None)]
     /\ UNCHANGED <<today, ops, uuids, serial>>
     /\ UNCHANGED <<year, sequences, creating>>

\* ------------------------------------------------- specifications
DocumentIds == DOMAIN documents \cup {0}

\* neither a function under evaluation nor a history is kept
pureVars == <<input, output>>

Next ==
  \/ \E c \in Callers, file \in UploadFiles, immediate \in BOOLEAN :
       UploadDocumentStart(c, file, immediate) /\ UNCHANGED pureVars
  \/ \E c \in Callers, ok \in BOOLEAN :
       UploadDocumentStored(c, ok) /\ UNCHANGED pureVars
  \/ \E c \in Callers, d \in DocumentIds :
       ProcessDocumentStart(c, d) /\ UNCHANGED pureVars
  \/ \E c \in Callers, d \in DocumentIds :
       ReprocessDocumentStart(c, d) /\ UNCHANGED pureVars
  \/ \E c \in Callers, d \in DocumentIds, category \in OverrideCategories,
        reprocess \in BOOLEAN :
       OverrideClassificationStart(c, d, category, reprocess)
         /\ UNCHANGED pureVars
  \/ \E c \in Callers, d \in DocumentIds, file \in UploadFiles :
       UpdateDocumentVersionStart(c, d, file) /\ UNCHANGED pureVars
  \/ \E c \in Callers, ok \in BOOLEAN :
       UpdateDocumentVersionStored(c, ok) /\ UNCHANGED pureVars
  \/ \E c \in Callers, ok \in BOOLEAN :
       Fetched(c, ok) /\ UNCHANGED pureVars
  \/ \E c \in Callers, answer \in ClassificationAnswers :
       Classified(c, answer) /\ UNCHANGED pureVars
  \/ \E c \in Callers, answer \in ExtractionAnswers :
       Extracted(c, answer) /\ UNCHANGED pureVars
  \/ \E c \in Callers, ok \in BOOLEAN :
       ArtifactStored(c, ok) /\ UNCHANGED pureVars
  \/ \E c \in Callers : Finish(c) /\ UNCHANGED pureVars
  \/ \E c \in Callers, d \in DocumentIds :
       DeleteDocumentStart(c, d) /\ UNCHANGED pureVars
  \/ \E c \in Callers, ok \in BOOLEAN :
       DeleteStored(c, ok) /\ UNCHANGED pureVars

\* one application was created (SH-2025-0001); no document yet
InitDocuments ==
  /\ year = 2025
  /\ today = 10
  /\ sequences = (2025 :> 1)
  /\ applications =
       (TheApplication :>
          [referenceNumber |-> ReferenceNumber(2025, 1), status |-> "draft",
           requiresSupport |-> FALSE, checklist |-> None])
  /\ creating = [p \in Creators |-> NoCreate]
  /\ documents = <<>>
  /\ documentVersions = {}
  /\ extractionVersions = {}
  /\ processingLog = <<>>
  /\ blobs = <<>>
  /\ call = [c \in Callers |-> NoCall]
  /\ ops = 0
  /\ uuids = 0
  /\ trace = <<>>
  /\ serial = TRUE
  /\ input = None
  /\ output = None

\* the same, after uploadDocument("ID Card.pdf", processImmediately = false)
InitUploaded ==
  LET key == generateDocumentKey(cluid, TheApplication, "ID Card.pdf", 1)
  IN /\ year = 2025
     /\ today = 10
     /\ sequences = (2025 :> 1)
     /\ applications =
          (TheApplication :>
             [referenceNumber |-> ReferenceNumber(2025, 1),
              status |-> "draft", requiresSupport |-> FALSE,
              checklist |-> None])
     /\ creating = [p \in Creators |-> NoCreate]
     /\ documents = (1 :> NewDocument(TheApplication, "ID Card.pdf", key))
     /\ documentVersions =
          {[documentId |-> 1, version |-> 1, s3Key |-> key,
            createdBy |-> Null]}
     /\ extractionVersions = {}
     /\ processingLog =
          InsertLog(<<>>, LogEntry(1, TheApplication, "upload",
                                   "completed", Null))
     /\ blobs = (key :> Null)
     /\ call = [c \in Callers |-> NoCall]
     /\ ops = 0
     /\ uuids = 1
     /\ trace = <<>>
     /\ serial = FALSE
     /\ input = None
     /\ output = None

\* calls never overlap (the assumption of the design)
Spec == InitDocuments /\ [][Next]_vars

\* calls may overlap at every await
SpecOverlap == InitUploaded /\ [][Next]_vars

\* the database right after initializeDatabase
InitRef ==
  /\ year = 2025
  /\ today = 10
  /\ sequences = <<>>
  /\ applications = <<>>
  /\ creating = [p \in Creators |-> NoCreate]
  /\ documents = <<>>
  /\ documentVersions = {}
  /\ extractionVersions = {}
  /\ processingLog = <<>>
  /\ blobs = <<>>
  /\ call = [c \in Callers |-> NoCall]
  /\ ops = 0
  /\ uuids = 0
  /\ serial = TRUE
  /\ trace = <<>>
  /\ input = None
  /\ output = None

NextRef ==
  \/ \E p \in Creators : GenerateReferenceNumber(p)
  \/ \E p \in Creators : InsertApplication(p)
  \/ NewYear

\* concurrent application creation
SpecRef == InitRef /\ [][NextRef]_vars


\* ------------------------------------- a case with its documents
\* a document row as a finished run leaves it
CaseDocument(category, status, score, expiryDate, documentDate) ==
  [NewDocument(TheApplication, "ID Card.pdf", <<>>) EXCEPT
     !.category = category,
     !.classificationConfidence = 100,
     !.processingStatus = status,
     !.completenessScore = score,
     !.extractedData =
        Some([documentType |-> category, confidence |-> 100,
              fields |-> [expiryDate |-> expiryDate,
                          documentDate |-> documentDate]])]

Good(category) == CaseDocument(category, "completed", 100, 20, 9)
Poor(category) == CaseDocument(category, "completed", 50, 20, 9)

\* the documents a case may hold of each category; the identity document
\* of the last list expires, and the proof of address of the last list
\* passes its maximum age, when the clock moves on
CaseShapes ==
  [identity : {<<>>, <<Good("identity")>>, <<Poor("identity")>>,
               <<CaseDocument("identity", "error", 100, 20, 9)>>,
               <<CaseDocument("identity", "completed", 100, 10, 9)>>},
   income : {<<>>, <<Good("income")>>,
             <<Good("income"), Good("income"), Good("income")>>},
   bank_statement :
     {<<>>, <<Poor("bank_statement")>>,
      <<Good("bank_statement"), Good("bank_statement"),
        Good("bank_statement")>>},
   proof_of_address :
     {<<>>, <<Good("proof_of_address")>>,
      <<CaseDocument("proof_of_address", "completed", 100, 20, 7)>>},
   welfare_benefit :
     {<<>>, <<Good("welfare_benefit")>>, <<Poor("welfare_benefit")>>},
   medical : {<<>>, <<Good("medical")>>},
   tenancy : {<<>>, <<Good("tenancy")>>}]

\* the rows of findByApplicationId: ids 1..n
CaseRows(shape) ==
  shape.identity \o shape.income \o shape.bank_statement
    \o shape.proof_of_address \o shape.welfare_benefit
    \o shape.medical \o shape.tenancy

\* statuses a case officer may set by hand
CaseStatuses == {"approved"}

InitCase ==
  /\ year = 2025
  /\ today = 10
  /\ sequences = (2025 :> 1)
  /\ \E shape \in CaseShapes : documents = CaseRows(shape)
  /\ \E requiresSupport \in BOOLEAN :
       applications =
         (TheApplication :>
            [referenceNumber |-> ReferenceNumber(2025, 1),
             status |-> "draft", requiresSupport |-> requiresSupport,
             checklist |-> None])
  /\ creating = [p \in Creators |-> NoCreate]
  /\ documentVersions = {}
  /\ extractionVersions = {}
  /\ processingLog = <<>>
  /\ blobs = <<>>
  /\ call = [c \in Callers |-> NoCall]
  /\ ops = 0
  /\ uuids = 0
  /\ trace = <<>>
  /\ serial = TRUE
  /\ input = None
  /\ output = None

caseVars == <<year, sequences, creating, documents, documentVersions,
              extractionVersions, processingLog, blobs, call, ops, uuids,
              serial, trace>>

\* ApplicationController.refreshChecklist; output holds the checklist of
\* the response until the next request, input the day it was evaluated on
RefreshChecklist ==
  /\ applications' = updateApplicationChecklist(applications, documents,
                                                TheApplication, today)
  /\ output' = applications'[TheApplication].checklist
  /\ input' = Some(today)
  /\ UNCHANGED today
  /\ UNCHANGED caseVars

\* ApplicationController.updateStatus
UpdateStatus(status) ==
  /\ applications' = [applications EXCEPT ![TheApplication].status = status]
  /\ output' = None
  /\ UNCHANGED <<today, input>>
  /\ UNCHANGED caseVars

\* the wall clock moves on
Tick ==
  /\ today < 10 + MaxTicks
  /\ today' = today + 1
  /\ UNCHANGED <<applications, input, output>>
  /\ UNCHANGED caseVars

NextCase ==
  \/ RefreshChecklist
  \/ \E status \in CaseStatuses : UpdateStatus(status)
  \/ Tick

\* checklist refreshes of one case over time
SpecCase == InitCase /\ [][NextCase]_vars


\* ------------------------------------------------------------ claims
YearOf(referenceNumber) == referenceNumber[2]

\* reference numbers handed out so far for year y: those of the stored
\* applications and those held by create calls that have not inserted yet
StoredFor(y) ==
  {a \in DOMAIN applications : YearOf(applications[a].referenceNumber) = y}

HeldFor(y) ==
  {p \in Creators : /\ creating[p].pc = "insert"
                    /\ YearOf(creating[p].referenceNumber) = y}

IssuedFor(y) ==
  {applications[a].referenceNumber : a \in StoredFor(y)}
    \cup {creating[p].referenceNumber : p \in HeldFor(y)}

\* C1: for N creations within calendar year Y, in any interleaving of
\* concurrent create calls, the reference numbers issued are exactly
\* SH-Y-0001 .. SH-Y-000N: none shared, none skipped, and the first
\* creation of a year sets that year's counter to 1.
C1_ReferenceNumbersExact ==
  \A y \in Years :
    LET n == Cardinality(StoredFor(y)) + Cardinality(HeldFor(y))
    IN /\ IssuedFor(y) = {ReferenceNumber(y, i) : i \in 1..n}
       /\ \A i \in 1..n :
            ReferenceNumber(y, i) = <<"SH", y, <<0, 0, 0, i>> >>
       /\ IF n = 0 THEN y \notin DOMAIN sequences
          ELSE y \in DOMAIN sequences /\ sequences[y] = n

\* two creations of 2025 overlapped, and 2026 started a counter of its own
C1_Witness ==
  /\ Cardinality(StoredFor(2025)) = 2
  /\ Cardinality(StoredFor(2026)) + Cardinality(HeldFor(2026)) = 2
  /\ \E p \in Creators : creating[p].pc = "insert"

ExtractionRows(d) == {r \in extractionVersions : r.documentId = d}

\* C2: at every point where control can pass between operations, also
\* while runs of the same document overlap, a document's extractionVersion
\* is the highest version among its ExtractionVersion rows (0 without
\* rows), and the rows carry exactly the versions 1..extractionVersion,
\* no (documentId, version) twice.
C2_ExtractionVersionsDense ==
  /\ \A d \in DOMAIN documents :
       /\ {r.version : r \in ExtractionRows(d)}
            = 1..documents[d].extractionVersion
       /\ Cardinality(ExtractionRows(d)) = documents[d].extractionVersion
  /\ \A r \in extractionVersions : r.documentId \in DOMAIN documents

\* two overlapping runs of document 1 both extracted
C2_Witness ==
  /\ call["r1"].documentId = 1 /\ call["r1"].pc = "artifact"
  /\ call["r2"].documentId = 1 /\ call["r2"].pc = "artifact"
  /\ documents[1].extractionVersion = 2

VersionRows(d) == {r \in documentVersions : r.documentId = d}

InFlight(c) == call[c].pc \notin {"idle", "done"}

\* the listing of findByDocumentId holds every row of d, newest first
ListedNewestFirst(d) ==
  LET listed == FindVersionsByDocumentId(documentVersions, d)
  IN /\ Range(listed) = VersionRows(d)
     /\ Len(listed) = Cardinality(VersionRows(d))
     /\ \A i \in 1..(Len(listed) - 1) :
          listed[i].version > listed[i + 1].version

C3_VersionIsNewestRow ==
  \A d \in DOMAIN documents :
    /\ VersionRows(d) # {}
    /\ documents[d].version = Max({r.version : r \in VersionRows(d)})
    /\ ListedNewestFirst(d)

C3_OneRowPerReplacement ==
  \A c \in Callers :
    LET d == call[c].documentId
    IN /\ (call[c].pc = "putVersion" /\ call'[c].pc = "fetch") =>
            \E r \in documentVersions' :
               /\ r \notin documentVersions
               /\ documentVersions' = documentVersions \cup {r}
               /\ r.documentId = d
               /\ r.version = Max({q.version : q \in VersionRows(d)}) + 1
       /\ (/\ call[c].op = "updateVersion" /\ InFlight(c)
           /\ call[c].pc # "putVersion" /\ call'[c] # call[c]) =>
            documentVersions' = documentVersions

\* C3: over calls that do not overlap, a document's version is the highest
\* version among its DocumentVersion rows; an updateDocumentVersion whose
\* bytes were stored adds exactly one row, numbered one above the previous
\* highest, and changes no earlier row; findByDocumentId lists the rows
\* newest first.
C3_VersionHistory ==
  []C3_VersionIsNewestRow /\ [][C3_OneRowPerReplacement]_vars

\* a replacement upload has just written version 2 and entered the pipeline
C3_Witness ==
  \E c \in Callers :
    /\ call[c].op = "updateVersion" /\ call[c].pc = "fetch"
    /\ documents[call[c].documentId].version = 2
    /\ Cardinality(VersionRows(call[c].documentId)) = 2

\* an updateDocumentVersion call that got its bytes stored
StoredReplacement(c) ==
  /\ call[c].op = "updateVersion" /\ call[c].pc = "done"
  /\ call[c].error \notin {"Document not found", "Upload failed"}

\* C4: version bumps of overlapping updateDocumentVersion calls on one
\* document do not interleave: each call gets a DocumentVersion row of its
\* own, under a version-qualified key that holds that call's bytes, and
\* version is the highest row version.
C4_OverlappingReplacements ==
  /\ \A d \in DOMAIN documents :
       documents[d].version = Max({r.version : r \in VersionRows(d)})
  /\ \A r \in documentVersions :
       (r.createdBy # Null /\ r.s3Key \in DOMAIN blobs) =>
          blobs[r.s3Key] = r.createdBy
  /\ \A c \in Callers :
       (StoredReplacement(c) /\ call[c].documentId \in DOMAIN documents) =>
          \E r \in VersionRows(call[c].documentId) :
             r.createdBy = c

\* a processDocument run that returned without reaching the catch block
Completed(c) ==
  /\ call[c].pc = "done" /\ call[c].outcome = "returned"
  /\ call[c].processResult # None
  /\ The(call[c].processResult).success
  /\ call[c].documentId \in DOMAIN documents

ExtractionFailed(rec) ==
  rec.extraction # None /\ ~The(rec.extraction).success

\* C5: a processDocument run that neither overlaps another call nor meets
\* an unexpected exception leaves the document completed, or
\* validation_failed exactly when extraction ran and failed.
C5_TerminalStatus ==
  \A c \in Callers :
    Completed(c) =>
      documents[call[c].documentId].processingStatus =
        IF ExtractionFailed(call[c]) THEN "validation_failed" ELSE "completed"

\* a run whose extraction failed has returned
C5_Witness ==
  \E c \in Callers :
    /\ Completed(c) /\ ExtractionFailed(call[c])
    /\ documents[call[c].documentId].processingStatus = "validation_failed"

PipelineEdges ==
  {<<"classifying", "classified">>, <<"classified", "extracting">>,
   <<"classified", "completed">>, <<"extracting", "extracted">>,
   <<"extracting", "validation_failed">>, <<"extracted", "completed">>}

StatusChanges == {i \in 1..Len(trace) : trace[i].from # trace[i].to}

\* C6 as stated: every status change follows uploaded -> classifying ->
\* classified -> extracting | completed, extracting -> extracted |
\* validation_failed, extracted -> completed, any -> error on an unexpected
\* failure, any -> uploaded by reprocess; classifying only from uploaded.
C6_StatedEdges ==
  \A i \in StatusChanges :
    \/ <<trace[i].from, trace[i].to>> \in
         PipelineEdges \cup {<<"uploaded", "classifying">>}
    \/ trace[i].to = "error" /\ trace[i].by = "catch"
    \/ trace[i].to = "uploaded" /\ trace[i].by = "reprocess"

\* C6: over calls that do not overlap, every status change is: any status
\* -> classifying when a processing run starts, any status -> classified
\* by a classification override, an edge classifying -> classified ->
\* extracting | completed, extracting -> extracted | validation_failed,
\* extracted -> completed inside a run, any -> error on an unexpected
\* failure, or any -> uploaded by reprocess.
C6_StatusEdges ==
  \A i \in StatusChanges :
    \/ trace[i].by = "process" /\
         (\/ trace[i].to = "classifying"
          \/ <<trace[i].from, trace[i].to>> \in PipelineEdges)
    \/ trace[i].by = "override" /\ trace[i].to = "classified"
    \/ trace[i].to = "error" /\ trace[i].by = "catch"
    \/ trace[i].to = "uploaded" /\ trace[i].by = "reprocess"

\* a run has started on a document that was already completed
C6_Witness ==
  \E i \in StatusChanges :
    /\ trace[i].from = "completed" /\ trace[i].to = "classifying"
    /\ trace[i].by = "process"

C7_Gate ==
  \A c \in Callers :
    LET d == call[c].documentId
        classification == The(call'[c].classification)
        invoked == call'[c].pc = "extract"
        untouched ==
          /\ extractionVersions' = extractionVersions
          /\ documents'[d].extractionVersion = documents[d].extractionVersion
    IN /\ (/\ call[c].pc = "classify" /\ call'[c].pc # "classify"
           /\ d \in DOMAIN documents) =>
            /\ invoked <=> (/\ classification.category # "unknown"
                            /\ classification.confidence >= 70)
            /\ ~invoked =>
                 /\ call'[c].pc = "finish" /\ call'[c].extraction = None
                 /\ Len(trace') = 2
                 /\ trace'[1].to = "classified"
                 /\ trace'[2].from = "classified"
                 /\ trace'[2].to = "completed"
                 /\ untouched
       /\ (/\ call[c].pc = "finish" /\ call[c].extraction = None
           /\ call'[c].pc = "done" /\ d \in DOMAIN documents) =>
            /\ untouched
            /\ documents'[d].processingStatus = "completed"

\* C7: the extraction stage is invoked exactly when the classified category
\* is not unknown and the confidence is at least 0.7; otherwise the
\* document goes classified -> completed, no ExtractionVersion row is
\* created and extractionVersion stays as it was.
C7_ExtractionGate == [][C7_Gate]_vars

\* a run skipped extraction for a known category below the threshold
C7_Witness ==
  \E c \in Callers :
    /\ call[c].pc = "finish" /\ call[c].extraction = None
    /\ The(call[c].classification).category = "income"
    /\ The(call[c].classification).confidence = 69
    /\ documents[call[c].documentId].processingStatus = "completed"

ModelFailed(rec) ==
  \/ rec.classification # None /\ The(rec.classification).failed
  \/ ExtractionFailed(rec)

\* C8: a failure of the model call in classification or extraction never
\* aborts the run: the checklist and the application status are recomputed
\* and stored from the documents as they then stand, and the run returns a
\* result instead of raising.
C8_ModelFailureAbsorbed ==
  \A c \in Callers :
    LET rec == call[c]
        app == The(rec.document).applicationId
        checklist ==
          evaluateChecklist(documents, applications[app].requiresSupport,
                            today)
    IN (ModelFailed(rec) /\ rec.pc \in {"finish", "done"}) =>
         /\ rec.outcome # "raised"
         /\ rec.pc = "done" =>
              /\ rec.outcome = "returned"
              /\ rec.processResult # None
              /\ The(rec.processResult).success
         /\ rec.documentId \in DOMAIN documents =>
              /\ documents[rec.documentId].processingStatus \in
                   {"completed", "validation_failed"}
              /\ applications[app].checklist = Some(checklist)
              /\ applications[app].status =
                   IF getMissingDocuments(checklist) # {}
                     THEN "documents_pending"
                   ELSE IF calculateOverallCompleteness(checklist) < 100
                     THEN "documents_review"
                     ELSE "eligibility_check"

\* a run whose classification call failed has returned its result
C8_Witness ==
  \E c \in Callers :
    /\ call[c].pc = "done" /\ call[c].outcome = "returned"
    /\ call[c].classification # None
    /\ The(call[c].classification).failed
    /\ The(call[c].processResult).success

LastError(c) ==
  LET errors == The(call[c].processResult).errors
  IN errors[Len(errors)]

\* C9: for every versioned write, if the blob upload fails, no database
\* row for that version is committed, and the failure reaches the caller
\* as an error.
C9_NoRowWithoutBlob ==
  \A c \in Callers :
    LET rec == call[c]
        d == rec.documentId
    IN /\ (rec.pc = "done" /\ rec.error = "Upload failed") =>
            /\ rec.outcome = "raised"
            /\ rec.op = "updateVersion" =>
                 \A r \in VersionRows(d) : r.version # rec.newVersion
       /\ (/\ rec.pc = "done" /\ rec.processResult # None
           /\ The(rec.processResult).errors # <<>>
           /\ LastError(c) = "Artifact upload failed"
           /\ d \in DOMAIN documents) =>
            /\ ~The(rec.processResult).success
            /\ \A r \in ExtractionRows(d) : r.version # rec.extractionVersion
            /\ documents[d].extractionVersion < rec.extractionVersion

\* a finished run that went through the catch block of processDocument
Caught(rec) ==
  /\ rec.pc = "done" /\ rec.processResult # None
  /\ ~The(rec.processResult).success
  /\ rec.processResult # NotFoundResult

C10_Result ==
  \A c \in Callers :
    LET rec == call[c]
        d == rec.documentId
    IN /\ rec.op = "process" => rec.outcome # "raised"
       /\ (rec.op # "delete" /\ rec.document # None) =>
            rec.outcome # "raised"
       /\ (Caught(rec) /\ d \in DOMAIN documents) =>
            /\ rec.outcome = "returned"
            /\ documents[d].processingStatus = "error"
            /\ LogEntry(d, The(rec.document).applicationId, "processing",
                        "failed", LastError(c)) \in DOMAIN processingLog

C10_Step ==
  \A c \in Callers :
    LET d == call'[c].documentId
    IN /\ (InFlight(c) /\ Caught(call'[c])) =>
            /\ LogCount(processingLog') = LogCount(processingLog) + 1
            /\ trace' # <<>>
            /\ trace'[Len(trace')].to = "error"
       /\ (/\ ~InFlight(c) /\ call'[c].op = "reprocess"
           /\ call'[c] # call[c]
           /\ d \in DOMAIN documents) =>
            /\ documents'[d].processingStatus = "uploaded"
            /\ call'[c].pc = "fetch"

\* C10: processDocument never raises to its caller: an unexpected exception
\* at any step sets the status to error, appends a processing log entry
\* with status failed and the message, and returns success=false; a later
\* reprocessDocument starts the pipeline again from uploaded.
C10_ExceptionsContained == []C10_Result /\ [][C10_Step]_vars

\* ---- reprocessDocument called repeatedly with a deterministic model stub:
\* `input` is the stub's answer, `output` the document as each run left it
ModelStubs ==
  [classification : ClassificationAnswers, extraction : ExtractionAnswers]

InitStub ==
  LET key == generateDocumentKey(cluid, TheApplication, "ID Card.pdf", 1)
  IN /\ year = 2025
     /\ today = 10
     /\ sequences = (2025 :> 1)
     /\ applications =
          (TheApplication :>
             [referenceNumber |-> ReferenceNumber(2025, 1),
              status |-> "draft", requiresSupport |-> FALSE,
              checklist |-> None])
     /\ creating = [p \in Creators |-> NoCreate]
     /\ documents = (1 :> NewDocument(TheApplication, "ID Card.pdf", key))
     /\ documentVersions =
          {[documentId |-> 1, version |-> 1, s3Key |-> key,
            createdBy |-> Null]}
     /\ extractionVersions = {}
     /\ processingLog =
          InsertLog(<<>>, LogEntry(1, TheApplication, "upload",
                                   "completed", Null))
     /\ blobs = (key :> Null)
     /\ call = [c \in Callers |-> NoCall]
     /\ ops = 0
     /\ uuids = 1
     /\ trace = <<>>
     /\ serial = TRUE
     /\ \E stub \in ModelStubs : input = Some(stub)
     /\ output = <<>>

\* the document as a returning run leaves it, and whether the run stored an
\* extraction
RunSummary(document, rec) ==
  [category |-> document.category,
   classificationConfidence |-> document.classificationConfidence,
   completenessScore |-> document.completenessScore,
   extractionVersion |-> document.extractionVersion,
   extracted |-> rec.extraction # None /\ The(rec.extraction).success]

\* every return of a run is observed, the one from the catch block too
Observed(c) ==
  /\ output' =
       IF call'[c].pc = "done"
         THEN Append(output, RunSummary(documents'[call'[c].documentId],
                                        call'[c]))
         ELSE output
  /\ UNCHANGED input

NextStub ==
  \/ \E c \in Callers : ReprocessDocumentStart(c, 1) /\ Observed(c)
  \/ \E c \in Callers : Fetched(c, TRUE) /\ Observed(c)
  \/ \E c \in Callers :
       Classified(c, The(input).classification) /\ Observed(c)
  \/ \E c \in Callers :
       Extracted(c, The(input).extraction) /\ Observed(c)
  \/ \E c \in Callers : ArtifactStored(c, TRUE) /\ Observed(c)
  \/ \E c \in Callers : Finish(c) /\ Observed(c)

SpecStub == InitStub /\ [][NextStub]_vars

\* ---- functions that read no store: `input` is the argument, `output`
\* the value returned
storeVars == <<year, today, sequences, applications, creating, documents,
               documentVersions, extractionVersions, processingLog, blobs,
               call, ops, uuids, serial, trace>>

EmptyStore ==
  /\ year = 2025
  /\ today = 10
  /\ sequences = <<>>
  /\ applications = <<>>
  /\ creating = [p \in Creators |-> NoCreate]
  /\ documents = <<>>
  /\ documentVersions = {}
  /\ extractionVersions = {}
  /\ processingLog = <<>>
  /\ blobs = <<>>
  /\ call = [c \in Callers |-> NoCall]
  /\ ops = 0
  /\ uuids = 0
  /\ trace = <<>>
  /\ serial = TRUE

ItemStatuses == {"verified", "pending", "issues", "missing"}

\* the ChecklistItems a key may hold; an optional key may be absent
Items(required, statuses) ==
  {Some(Item(r, status, {}, {})) : r \in required, status \in statuses}

\* values of type DocumentChecklistStatus
ChecklistChoices ==
  [identity : Items(BOOLEAN, {"verified", "issues", "missing"}),
   income : Items(BOOLEAN, {"verified", "pending", "missing"}),
   bankStatements : Items(BOOLEAN, {"verified", "missing"}),
   proofOfAddress : Items(BOOLEAN, {"pending", "missing"}),
   welfareBenefit : {None} \cup Items({FALSE}, ItemStatuses),
   medicalEvidence :
     {None} \cup Items({TRUE}, {"verified", "missing"})
            \cup Items({FALSE}, {"issues"}),
   tenancyAgreement : {None} \cup Items({FALSE}, ItemStatuses)]

ChecklistOf(choice) ==
  [k \in {key \in ChecklistKeys : choice[key] # None} |-> The(choice[k])]

InitCompleteness ==
  /\ EmptyStore
  /\ \E choice \in ChecklistChoices : input = Some(ChecklistOf(choice))
  /\ output = None

Calculate ==
  /\ output = None
  /\ output' = Some(calculateOverallCompleteness(The(input)))
  /\ UNCHANGED input
  /\ UNCHANGED storeVars

NextCompleteness == Calculate

SpecCompleteness == InitCompleteness /\ [][NextCompleteness]_vars

\* ---- ExtractionService.checkCompleteness
extractionThreshold == 60

REQUIRED_FIELDS ==
  [identity |-> <<"fullName", "dateOfBirth", "documentNumber", "expiryDate">>,
   income |-> <<"employerName", "employeeName", "grossPay", "netPay",
                "payDate">>,
   bank_statement |-> <<"bankName", "accountHolder", "statementPeriodStart",
                        "closingBalance">>,
   welfare_benefit |-> <<"benefitType", "recipientName", "awardAmount",
                         "letterDate", "issuingBody">>,
   medical |-> <<"issuerName", "patientName", "letterDate">>,
   tenancy |-> <<"tenantName", "propertyAddress", "landlordName">>,
   proof_of_address |-> <<"recipientName", "address", "documentDate",
                          "issuer">>,
   other |-> <<"documentDescription">>,
   unknown |-> <<"qualityIssues">>]

FieldMissingUnlessNull(fields, fieldName) ==
  \/ fieldName \notin DOMAIN fields
  \/ fields[fieldName].value = Null

\* !field || field.value === null || field.value === ''
FieldMissing(fields, fieldName) ==
  \/ fieldName \notin DOMAIN fields
  \/ fields[fieldName].value = Null
  \/ fields[fieldName].value = ""

\* the issues are kept as a set: their order plays no part
checkCompleteness(fields, requiredFields) ==
  LET totalRequired == Len(requiredFields)
      names == {requiredFields[i] : i \in 1..totalRequired}
      missing == {f \in names : FieldMissing(fields, f)}
      low == {f \in names \ missing :
                fields[f].confidence < extractionThreshold}
      \* counted in halves
      filledRequired == 2 * Cardinality((names \ missing) \ low)
                          + Cardinality(low)
      issues ==
        {[field |-> f, severity |-> "error", message |-> "is missing"] :
           f \in missing}
          \cup {[field |-> f, severity |-> "warning",
                 message |-> "has low confidence"] : f \in low}
          \cup UNION {{[field |-> f, severity |-> "warning",
                        message |-> fields[f].issues[i]] :
                          i \in 1..Len(fields[f].issues)} :
                      f \in DOMAIN fields}
  IN [completenessScore |->
        IF totalRequired > 0
          THEN MathRound(DoubleTimes(
                 DoubleDivide(filledRequired, 2 * totalRequired), 100))
          ELSE 100,
      issues |-> issues]

\* what processExtractedFields may leave under a field name
FieldChoices ==
  {None,
   Some([value |-> Null, confidence |-> 0, issues |-> <<>>]),
   Some([value |-> "", confidence |-> 100, issues |-> <<>>]),
   Some([value |-> "x", confidence |-> 59, issues |-> <<>>]),
   Some([value |-> "x", confidence |-> 60, issues |-> <<>>]),
   Some([value |-> "x", confidence |-> 100, issues |-> <<>>]),
   Some([value |-> "x", confidence |-> 100, issues |-> <<"unclear">>])}

\* the required-field lists checkCompleteness is given, and the empty list
RequiredFieldLists ==
  {REQUIRED_FIELDS[category] : category \in DOMAIN REQUIRED_FIELDS}
    \cup {<<>>}

FieldsOf(choice) ==
  [f \in {name \in DOMAIN choice : choice[name] # None} |-> The(choice[f])]

InitExtractionScore ==
  /\ EmptyStore
  /\ \E requiredFields \in RequiredFieldLists :
       \E choice \in [Range(requiredFields) -> FieldChoices] :
         input = Some([requiredFields |-> requiredFields,
                       fields |-> FieldsOf(choice)])
  /\ output = None

CheckCompleteness ==
  /\ output = None
  /\ output' = Some(checkCompleteness(The(input).fields,
                                      The(input).requiredFields))
  /\ UNCHANGED input
  /\ UNCHANGED storeVars

NextExtractionScore == CheckCompleteness

SpecExtractionScore == InitExtractionScore /\ [][NextExtractionScore]_vars

\* ---- ClassificationService.classifyPdfDocument
\* what the model may answer for a page: no answer, or a category string
\* (recognised or not) with a confidence that is missing, out of range or
\* in range
PageAnswers ==
  {[ok |-> FALSE, category |-> Null, confidence |-> 0]}
    \cup [ok : {TRUE},
          category : {"identity", "income", "unknown", "passport"},
          confidence : {NaN, 0 - 50, 0, 12, 18, 30, 90, 150}]

RECURSIVE PageLists(_)
PageLists(n) ==
  IF n = 0 THEN {<<>>}
  ELSE PageLists(n - 1)
         \cup {Append(pages, answer) :
                 pages \in {l \in PageLists(n - 1) : Len(l) = n - 1},
                 answer \in PageAnswers}

InitClassifyPdf ==
  /\ EmptyStore
  /\ \E pages \in PageLists(maxPages) : input = Some(pages)
  /\ output = None

ClassifyPdf ==
  /\ output = None
  /\ output' = Some(classifyPdfDocument(The(input)))
  /\ UNCHANGED input
  /\ UNCHANGED storeVars

NextClassifyPdf == ClassifyPdf

SpecClassifyPdf == InitClassifyPdf /\ [][NextClassifyPdf]_vars

\* ---- SchemaVersioningService: a version string is the list of its
\* characters
Version100 == <<"1", ".", "0", ".", "0">>
Version110 == <<"1", ".", "1", ".", "0">>
Version200 == <<"2", ".", "0", ".", "0">>

\* the version strings of each registry, in the order of the array
SCHEMA_REGISTRIES ==
  [identity |-> <<Version100, Version200>>,
   income |-> <<Version100, Version200>>,
   bank_statement |-> <<Version100, Version110>>,
   welfare_benefit |-> <<Version100, Version110>>,
   medical |-> <<Version100>>,
   tenancy |-> <<Version100>>,
   proof_of_address |-> <<Version100>>,
   other |-> <<Version100>>,
   unknown |-> <<Version100>>]

Digits == <<"0", "1", "2", "3", "4", "5", "6", "7", "8", "9">>

\* version.split('.')
RECURSIVE Split(_, _)
Split(string, part) ==
  IF string = <<>> THEN <<part>>
  ELSE IF Head(string) = "." THEN <<part>> \o Split(Tail(string), <<>>)
  ELSE Split(Tail(string), Append(part, Head(string)))

\* Number(part) || 0: the empty string is 0, and so is what is no number
RECURSIVE NumberOrZero(_, _)
NumberOrZero(part, value) ==
  IF part = <<>> THEN value
  ELSE IF \E d \in DOMAIN Digits : Digits[d] = Head(part)
    THEN NumberOrZero(Tail(part),
           10 * value + (CHOOSE d \in DOMAIN Digits : Digits[d] = Head(part))
             - 1)
  ELSE 0

PartAt(parts, i) == IF i <= Len(parts) THEN NumberOrZero(parts[i], 0) ELSE 0

RECURSIVE CompareFrom(_, _, _)
CompareFrom(v1Parts, v2Parts, i) ==
  IF i > Max({Len(v1Parts), Len(v2Parts)}) THEN 0
  ELSE IF PartAt(v1Parts, i) > PartAt(v2Parts, i) THEN 1
  ELSE IF PartAt(v1Parts, i) < PartAt(v2Parts, i) THEN 0 - 1
  ELSE CompareFrom(v1Parts, v2Parts, i + 1)

compareVersions(version1, version2) ==
  CompareFrom(Split(version1, <<>>), Split(version2, <<>>), 1)

\* Array.prototype.findIndex, counted from 1; 0 when there is none
findIndex(versions, version) ==
  IF \E i \in DOMAIN versions : versions[i] = version
    THEN CHOOSE i \in DOMAIN versions :
           versions[i] = version /\ \A j \in 1..(i - 1) : versions[j] # version
    ELSE 0

getMigrationPathInclusive(category, fromVersion, toVersion) ==
  LET versions == SCHEMA_REGISTRIES[category]
      fromIdx == findIndex(versions, fromVersion)
      toIdx == findIndex(versions, toVersion)
  IN IF fromIdx = 0 \/ toIdx = 0 \/ fromIdx >= toIdx THEN <<>>
     ELSE SubSeq(versions, fromIdx, toIdx)

getMigrationPath(category, fromVersion, toVersion) ==
  LET versions == SCHEMA_REGISTRIES[category]
      fromIdx == findIndex(versions, fromVersion)
      toIdx == findIndex(versions, toVersion)
  IN IF fromIdx = 0 \/ toIdx = 0 \/ fromIdx >= toIdx THEN <<>>
     ELSE SubSeq(versions, fromIdx + 1, toIdx)

\* the version strings asked about: the registered ones, other spellings of
\* them, and strings that are no version
VersionStrings ==
  {Version100, Version110, Version200,
   <<"1", ".", "0">>, <<"1">>, <<"2">>, <<"0", "1", ".", "0", ".", "0">>,
   <<"1", ".", "0", ".", "0", ".", "0">>, <<"3", ".", "0", ".", "0">>,
   <<"1", ".", "1", "0", ".", "0">>, <<"1", ".", ".", "0">>,
   <<"v", "1">>, <<>>}

InitMigration ==
  /\ EmptyStore
  /\ \E category \in DOMAIN SCHEMA_REGISTRIES :
       \E fromVersion \in VersionStrings, toVersion \in VersionStrings :
         input = Some([category |-> category, fromVersion |-> fromVersion,
                       toVersion |-> toVersion])
  /\ output = None

GetMigrationPath ==
  /\ output = None
  /\ output' = Some(getMigrationPath(The(input).category,
                                     The(input).fromVersion,
                                     The(input).toVersion))
  /\ UNCHANGED input
  /\ UNCHANGED storeVars

NextMigration == GetMigrationPath

SpecMigration == InitMigration /\ [][NextMigration]_vars

\* ---- SchemaVersioningService.validateAgainstSchema
\* `required` of each version's JSON schema, in the order of the versions;
\* the first version of the four categories with two versions has none
SchemaRequired ==
  [identity |-> << <<>>,
                   <<"documentSubtype", "fullName", "dateOfBirth",
                     "documentNumber">> >>,
   income |-> << <<>>,
                 <<"documentSubtype", "employerName", "employeeName",
                   "grossPay", "netPay">> >>,
   bank_statement |-> << <<>>,
                         <<"bankName", "accountHolder",
                           "statementPeriodStart", "statementPeriodEnd">> >>,
   welfare_benefit |-> << <<>>,
                          <<"benefitType", "recipientName", "awardAmount",
                            "letterDate">> >>,
   medical |-> << <<"issuerName", "patientName", "letterDate">> >>,
   tenancy |-> << <<"tenantName", "propertyAddress">> >>,
   proof_of_address |-> << <<"recipientName", "address", "documentDate">> >>,
   other |-> << <<"documentDescription">> >>,
   unknown |-> << <<"qualityIssues">> >>]

\* `requiredFields` of each version, in the order of the versions
SchemaRequiredFields ==
  [identity |-> << <<"fullName", "dateOfBirth">>,
                   <<"fullName", "dateOfBirth", "documentNumber",
                     "expiryDate">> >>,
   income |-> << <<"employerName", "grossPay", "netPay">>,
                 <<"employerName", "employeeName", "grossPay", "netPay",
                   "payDate">> >>,
   bank_statement |-> << <<"bankName", "accountHolder",
                           "statementPeriodStart", "closingBalance">>,
                         <<"bankName", "accountHolder",
                           "statementPeriodStart", "closingBalance">> >>,
   welfare_benefit |-> << <<"benefitType", "recipientName", "awardAmount",
                            "letterDate">>,
                          <<"benefitType", "recipientName", "awardAmount",
                            "letterDate", "issuingBody">> >>,
   medical |-> << <<"issuerName", "patientName", "letterDate">> >>,
   tenancy |-> << <<"tenantName", "propertyAddress", "landlordName">> >>,
   proof_of_address |-> << <<"recipientName", "address", "documentDate",
                             "issuer">> >>,
   other |-> << <<"documentDescription">> >>,
   unknown |-> << <<"qualityIssues">> >>]

\* data[field] === undefined || data[field] === null
Absent(data, field) == field \notin DOMAIN data \/ data[field] = Null

\* an error is kept as the name of the field it reports
validateAgainstSchema(category, version, data) ==
  LET at == findIndex(SCHEMA_REGISTRIES[category], version)
      requiredFields == IF at = 0 THEN <<>> ELSE SchemaRequired[category][at]
      absent(field) == Absent(data, field)
      errors == SelectSeq(requiredFields, absent)
  IN IF at = 0
       THEN [valid |-> FALSE, errors |-> <<"Schema version not found">>]
       ELSE [valid |-> errors = <<>>, errors |-> errors]

\* the field names either list of the category mentions
SchemaFields(category) ==
  UNION {Range(SchemaRequired[category][i]) \cup
           Range(SchemaRequiredFields[category][i]) :
             i \in DOMAIN SCHEMA_REGISTRIES[category]}

\* what data may hold under a name: nothing, null, the empty string, a value
DataChoices == {None, Some(Null), Some(""), Some("x")}

InitValidate ==
  /\ EmptyStore
  /\ \E category \in DOMAIN SCHEMA_REGISTRIES :
       \E version \in {Version100, Version110, Version200} :
         \E choice \in [SchemaFields(category) -> DataChoices] :
           input = Some([category |-> category, version |-> version,
                         data |-> FieldsOf(choice)])
  /\ output = None

ValidateAgainstSchema ==
  /\ output = None
  /\ output' = Some(validateAgainstSchema(The(input).category,
                                          The(input).version,
                                          The(input).data))
  /\ UNCHANGED input
  /\ UNCHANGED storeVars

NextValidate == ValidateAgainstSchema

SpecValidate == InitValidate /\ [][NextValidate]_vars

\* ---- ChecklistService.evaluateChecklist on the conditionally required
\* items: `input` is the documents of a case and its applicant data
OptionalCategories == {"welfare_benefit", "medical", "tenancy"}

\* completeness scores around the thresholds of the evaluators
OptionalScores == {0, 59, 60, 69, 70}

\* up to two documents of one category
DocumentsOfCategory(category) ==
  {<<>>}
    \cup {<<CaseDocument(category, "completed", a, 20, 9)>> :
            a \in OptionalScores}
    \cup {<<CaseDocument(category, "completed", a, 20, 9),
            CaseDocument(category, "completed", b, 20, 9)>> :
            a \in OptionalScores, b \in OptionalScores}

InitOptionalItems ==
  /\ EmptyStore
  /\ \E welfare \in DocumentsOfCategory("welfare_benefit"),
        medical \in DocumentsOfCategory("medical"),
        tenancy \in DocumentsOfCategory("tenancy"),
        requiresSupport \in BOOLEAN :
       input = Some([documents |-> welfare \o medical \o tenancy,
                     requiresSupport |-> requiresSupport])
  /\ output = None

EvaluateChecklist ==
  /\ output = None
  /\ output' = Some(evaluateChecklist(The(input).documents,
                                      The(input).requiresSupport, today))
  /\ UNCHANGED input
  /\ UNCHANGED storeVars

NextOptionalItems == EvaluateChecklist

SpecOptionalItems == InitOptionalItems /\ [][NextOptionalItems]_vars

\* ---- ExtractionService.processExtractedFields: `input` is the parsed
\* answer of the model, one JSON value per field; numbers that are
\* confidences are whole percentages
JsUndefined == [type |-> "undefined"]
JsNull == [type |-> "null"]
JsString(text) == [type |-> "string", text |-> text]
JsNumber(number) == [type |-> "number", number |-> number]
JsObject(members) == [type |-> "object", members |-> members]

\* value[key]
Member(value, key) ==
  IF value.type = "object" /\ key \in DOMAIN value.members
    THEN value.members[key]
    ELSE JsUndefined

\* the operand of `||` counts as true
Truthy(value) ==
  CASE value.type = "number" -> value.number # 0 /\ value.number # NaN
    [] value.type = "string" -> value.text # ""
    [] value.type = "object" -> TRUE
    [] OTHER -> FALSE

\* the number a value becomes as an argument of Math.min
ToNumber(value) ==
  CASE value.type = "number" -> value.number
    [] value.type = "null" -> 0
    [] value.type = "string" ->
         (CASE value.text = "" -> 0
            [] value.text = "0.9" -> 90
            [] OTHER -> NaN)
    [] OTHER -> NaN

MathMin(a, b) == IF a = NaN \/ b = NaN THEN NaN ELSE IF a < b THEN a ELSE b
MathMax(a, b) == IF a = NaN \/ b = NaN THEN NaN ELSE IF a > b THEN a ELSE b

\* fieldData.confidence || 0.5
ConfidenceOrDefault(fieldData) ==
  IF Truthy(Member(fieldData, "confidence"))
    THEN Member(fieldData, "confidence")
    ELSE JsNumber(50)

processField(value) ==
  IF value.type \in {"null", "undefined"}
    THEN [value |-> JsNull, confidence |-> 0]
  ELSE IF value.type = "object" /\ "value" \in DOMAIN value.members
    THEN [value |-> Member(value, "value"),
          confidence |->
            MathMax(0, MathMin(100, ToNumber(ConfidenceOrDefault(value))))]
    ELSE [value |-> value, confidence |-> 70]

processExtractedFields(rawExtraction) ==
  [key \in DOMAIN rawExtraction |-> processField(rawExtraction[key])]

\* confidences the model may report for a field
ReportedConfidences ==
  {JsNumber(0 - 20), JsNumber(0), JsNumber(50), JsNumber(100), JsNumber(150),
   JsString("0.9"), JsString("high"), JsNull}

\* JSON values a field of the answer may hold
RawValues ==
  {JsNull, JsString("x"), JsNumber(5), JsObject([amount |-> JsNumber(5)])}
    \cup {JsObject([value |-> v]) : v \in {JsNull, JsString("x")}}
    \cup {JsObject([value |-> v, confidence |-> reported]) :
            v \in {JsNull, JsString("x")}, reported \in ReportedConfidences}

RawFieldNames == {"fullName", "expiryDate"}

InitProcessFields ==
  /\ EmptyStore
  /\ \E rawExtraction \in [RawFieldNames -> RawValues] :
       input = Some(rawExtraction)
  /\ output = None

ProcessExtractedFields ==
  /\ output = None
  /\ output' = Some(processExtractedFields(The(input)))
  /\ UNCHANGED input
  /\ UNCHANGED storeVars

NextProcessFields == ProcessExtractedFields

SpecProcessFields == InitProcessFields /\ [][NextProcessFields]_vars

TheCase == applications[TheApplication]

RequiredMissing(checklist) ==
  \E k \in DOMAIN checklist :
     checklist[k].required /\ checklist[k].status = "missing"

\* the case status the checklist stands for
DerivedStatus(checklist) ==
  IF RequiredMissing(checklist) THEN "documents_pending"
  ELSE IF calculateOverallCompleteness(checklist) < 100
    THEN "documents_review"
    ELSE "eligibility_check"

\* C11: every checklist refresh sets the case status, whatever it was
\* before, to documents_pending if a required item is missing, else to
\* documents_review if the overall completeness is below 100, else to
\* eligibility_check.
C11_RefreshDerivesStatus ==
  output # None =>
    /\ TheCase.checklist = output
    /\ TheCase.status = DerivedStatus(The(output))

\* a refresh found every required item verified
C11_Witness ==
  /\ output # None
  /\ TheCase.status = "eligibility_check"
  /\ The(output).welfareBenefit.status = "missing"

\* a processing run has just returned and nothing else is in progress
AfterRun(c) ==
  /\ call[c].pc = "done" /\ call[c].outcome = "returned"
  /\ call[c].op # "delete" /\ call[c].document # None
  /\ call[c].processResult # None
  /\ \A o \in Callers \ {c} : Idle(o)

\* C12: whenever no operation is in progress on a case, the stored
\* checklist snapshot is the Checklist Engine's evaluation of the case's
\* current documents and the case status is the one derived from it; this
\* holds also after a processing run that ended in error or
\* validation_failed.
C12_SnapshotCurrent ==
  \A c \in Callers :
    AfterRun(c) =>
      /\ TheCase.checklist =
           Some(evaluateChecklist(documents, TheCase.requiresSupport, today))
      /\ TheCase.status =
           DerivedStatus(evaluateChecklist(documents, TheCase.requiresSupport,
                                           today))

C13_Deleted ==
  \A c \in Callers :
    LET d == call[c].documentId
        app == The(call[c].document).applicationId
        checklist == The(applications'[app].checklist)
    IN (/\ call[c].pc = "deleting" /\ call'[c].pc = "done"
        /\ call'[c].outcome = "returned") =>
         /\ documents[d].s3Key \notin DOMAIN blobs'
         /\ \A r \in VersionRows(d) : r.s3Key \notin DOMAIN blobs'
         /\ d \notin DOMAIN documents'
         /\ \A r \in documentVersions' \cup extractionVersions' :
              r.documentId # d
         /\ \A e \in DOMAIN processingLog' : e.documentId # d
         /\ applications'[app].checklist # None
         /\ \A k \in DOMAIN checklist :
              d \notin Range(checklist[k].documentIds)
         /\ checklist =
              evaluateChecklist(documents', applications[app].requiresSupport,
                                today)

\* C13: when deleteDocument returns, storage holds no blob at the
\* document's current key nor at the key of any of its versions, the
\* document row and its DocumentVersion, ExtractionVersion and log rows are
\* gone, and the stored checklist of the case was recomputed and names the
\* deleted document in no item.
C13_DeleteRemovesAll == [][C13_Deleted]_vars

\* a document that had been extracted and counted as identity was deleted
C13_Witness ==
  \E c \in Callers :
    /\ call[c].op = "delete" /\ call[c].pc = "done"
    /\ call[c].outcome = "returned"
    /\ call[c].documentId \notin DOMAIN documents
    /\ TheCase.checklist # None
    /\ The(TheCase.checklist).identity.status = "missing"
    /\ \E key \in DOMAIN blobs : key[3] = "extractions"

SameReading(first, second) ==
  /\ second.category = first.category
  /\ second.classificationConfidence = first.classificationConfidence
  /\ second.completenessScore = first.completenessScore

C14_EveryRunBumps ==
  \A i \in 1..Len(output) - 1 :
    /\ SameReading(output[i], output[i + 1])
    /\ output[i + 1].extractionVersion > output[i].extractionVersion

\* C14: two successive reprocessDocument runs on an unchanged document with
\* a deterministic model stub leave the same category, classification
\* confidence and completeness score; the second run leaves an
\* extractionVersion strictly greater than the first when it stored an
\* extraction, and the same extractionVersion when extraction was skipped
\* (category unknown or confidence below the threshold) or failed.
C14_ReprocessRepeats ==
  \A i \in 1..Len(output) - 1 :
    /\ SameReading(output[i], output[i + 1])
    /\ output[i + 1].extractionVersion =
         output[i].extractionVersion
           + (IF output[i + 1].extracted THEN 1 ELSE 0)

\* two runs that both extracted, the second one version higher
C14_Witness ==
  /\ Len(output) >= 2
  /\ output[2].extracted
  /\ output[2].completenessScore = 50
  /\ output[2].extractionVersion = 2

Evaluated(now) ==
  Some(evaluateChecklist(documents, TheCase.requiresSupport, now))

Counted(checklist) ==
  {k \in DOMAIN checklist :
     checklist[k].required \/ checklist[k].status # "missing"}

WeightInQuarters(item) == IF item.required THEN 8 ELSE 4

EarnedInQuarters(item) ==
  CASE item.status = "verified" -> WeightInQuarters(item)
    [] item.status = "pending" -> WeightInQuarters(item) \div 2
    [] item.status = "issues" -> WeightInQuarters(item) \div 4
    [] item.status = "missing" -> 0

\* round(100 x achieved / total), halves rounded up
RoundedShare(checklist) ==
  LET total == SumOver([k \in DOMAIN checklist |->
                          WeightInQuarters(checklist[k])], Counted(checklist))
      achieved == SumOver([k \in DOMAIN checklist |->
                             EarnedInQuarters(checklist[k])],
                          Counted(checklist))
  IN IF total = 0 THEN 0
     ELSE (200 * achieved + total) \div (2 * total)

Present(fields, f) ==
  f \in DOMAIN fields /\ fields[f].value \notin {Null, ""}

HalvesEarned(fields, f) ==
  IF ~Present(fields, f) THEN 0
  ELSE IF fields[f].confidence >= extractionThreshold THEN 2 ELSE 1

HalvesOf(request) ==
  SumOver([f \in Range(request.requiredFields) |-> HalvesEarned(request.fields, f)],
          Range(request.requiredFields))

PageResults ==
  [i \in 1..(IF Len(The(input)) < maxPages THEN Len(The(input))
             ELSE maxPages) |-> classifyDocument(The(input)[i])]

Aggregated ==
  /\ output # None
  /\ Len(PageResults) >= 2
  /\ ~(PageResults[1].confidence # NaN
         /\ PageResults[1].confidence >= highConfidence)

categoryOrder ==
  <<"identity", "income", "bank_statement", "welfare_benefit", "medical",
    "tenancy", "proof_of_address", "other", "unknown">>

PagesOf(category) ==
  {i \in DOMAIN PageResults : PageResults[i].category = category}

Summed(category) ==
  SumOver([i \in DOMAIN PageResults |-> PageResults[i].confidence],
          PagesOf(category))

Place(category) == CHOOSE i \in DOMAIN categoryOrder :
                     categoryOrder[i] = category

Winner ==
  CHOOSE c \in {PageResults[i].category : i \in DOMAIN PageResults} :
    \A i \in DOMAIN PageResults :
      \/ Summed(PageResults[i].category) < Summed(c)
      \/ /\ Summed(PageResults[i].category) = Summed(c)
         /\ Place(c) <= Place(PageResults[i].category)

\* the category with the highest sum whose first page comes first
WinnerByPage ==
  CHOOSE c \in {PageResults[i].category : i \in DOMAIN PageResults} :
    /\ \A i \in DOMAIN PageResults : Summed(PageResults[i].category) <= Summed(c)
    /\ \A i \in DOMAIN PageResults :
         Summed(PageResults[i].category) = Summed(c) =>
           \E j \in 1..i : PageResults[j].category = c

AggregatedAs(winner) ==
  LET result == The(output)
      alternatives == result.alternativeCategories
  IN /\ result.category = winner
     /\ result.confidence = Summed(winner) \div Cardinality(PagesOf(winner))
     /\ {alternatives[i].category : i \in DOMAIN alternatives} =
          {PageResults[i].category : i \in DOMAIN PageResults}
            \cap {c \in validCategories :
                    c # winner /\ Summed(c) > alternativeThreshold}
     /\ Len(alternatives) <= maxAlternatives
     /\ \A i, j \in DOMAIN alternatives :
          i < j => alternatives[i].confidence >= alternatives[j].confidence

NumericPages ==
  \A i \in DOMAIN PageResults : PageResults[i].confidence # NaN

C19_ResultNormalised ==
  output # None =>
    /\ The(output).category \in validCategories
    /\ The(output).confidence \in 0..100
    /\ \A i \in DOMAIN The(input) :
         LET page == classifyDocument(The(input)[i])
         IN /\ page.category \in validCategories
            /\ page.confidence \in 0..100
            /\ ~The(input)[i].ok =>
                 page.category = "unknown" /\ page.confidence = 0

Registered(category) == Range(SCHEMA_REGISTRIES[category])

Older(a, b) == compareVersions(a, b) < 0

\* C20: getMigrationPath(category, from, to) is empty when from or to is
\* not registered for the category or from is not older than to under
\* compareVersions; otherwise it is exactly the registered versions v with
\* from < v <= to, in ascending order.
C20_MigrationPath ==
  output # None =>
    LET category == The(input).category
        from == The(input).fromVersion
        to == The(input).toVersion
        path == The(output)
    IN IF \/ from \notin Registered(category)
          \/ to \notin Registered(category)
          \/ ~Older(from, to)
         THEN path = <<>>
         ELSE /\ Range(path) =
                   {v \in Registered(category) : Older(from, v) /\ ~Older(to, v)}
              /\ \A i, j \in DOMAIN path : i < j => Older(path[i], path[j])

\* the path from 1.0.0 to 1.1.0 for bank statements is the one version 1.1.0
C20_Witness ==
  /\ output = Some(<<Version110>>)
  /\ The(input).category = "bank_statement"
  /\ The(input).fromVersion = Version100
  /\ compareVersions(<<"1", ".", "1", "0", ".", "0">>, Version110) = 1
  /\ compareVersions(<<"1">>, Version100) = 0

\* the required-field list of a registered version
RequiredFieldList(category, version) ==
  SchemaRequiredFields[category][
    CHOOSE i \in DOMAIN SCHEMA_REGISTRIES[category] :
      SCHEMA_REGISTRIES[category][i] = version]

\* C21: validateAgainstSchema returns valid = false with an error when the
\* version is not registered for the category; otherwise valid is true
\* exactly when every field of the version's required-field list is in data
\* with a value that is neither null nor undefined, and there is one error
\* per absent required field.
C21_ValidatesRequiredFields ==
  output # None =>
    LET category == The(input).category
        version == The(input).version
        data == The(input).data
        result == The(output)
    IN IF version \notin Registered(category)
         THEN ~result.valid /\ Len(result.errors) >= 1
         ELSE LET absent == {f \in Range(RequiredFieldList(category, version)) :
                               f \notin DOMAIN data \/ data[f] = Null}
              IN /\ result.valid <=> absent = {}
                 /\ Len(result.errors) = Cardinality(absent)


StoredState ==
  <<applications, documents, documentVersions, extractionVersions,
    processingLog, blobs>>

\* a call that was handed the id of a document that does not exist
StartsOnMissing(c) ==
  /\ Idle(c) /\ call'[c].op \in {"process", "reprocess", "updateVersion",
                                  "delete"}
  /\ call'[c].documentId \notin DOMAIN documents

C22_Missing ==
  \A c \in Callers :
    StartsOnMissing(c) =>
      /\ call'[c].pc = "done"
      /\ call'[c].outcome = "returned"
      /\ call'[c].processResult = NotFoundResult
      /\ UNCHANGED StoredState

\* C22: every orchestrator operation given the id of a document that does
\* not exist (processDocument, reprocessDocument, updateDocumentVersion,
\* deleteDocument) hands its caller the structured not-found result instead
\* of raising, and changes no stored state (no row, no blob, no log entry).
C22_NotFoundStructured == [][C22_Missing]_vars

\* the call holds a file that validateFile refuses
HoldsRejected(rec, op) ==
  /\ rec.op = op /\ rec.file # None
  /\ ~validateFile(The(rec.file))

RejectedBeforePipeline(c, op) ==
  /\ (Idle(c) /\ HoldsRejected(call'[c], op)) =>
       /\ call'[c].pc = "done"
       /\ call'[c].outcome = "raised"
       /\ call'[c].classification = None
       /\ UNCHANGED StoredState
  /\ HoldsRejected(call[c], op) => call[c].pc = "done"

C23_Step ==
  \A c \in Callers :
    /\ RejectedBeforePipeline(c, "upload")
    /\ RejectedBeforePipeline(c, "updateVersion")

\* C23: an upload whose size exceeds the maximum or whose MIME type is not
\* in the allowed list is rejected before any pipeline step runs: no blob is
\* written, no document or version row is created or changed and no model
\* call is made, both for a first upload (uploadDocument) and for a
\* replacement upload (updateDocumentVersion).
C23_RejectedUploads == [][C23_Step]_vars

\* a failed entry of the log of document d: action name and error message
FailedEntries(d) ==
  {e \in DOMAIN processingLog :
     /\ e.documentId = d /\ e.status = "failed"
     /\ e.action \in {"classification", "extraction", "processing"}
     /\ e.errorMessage \notin {Null, ""}}

C24_FailureLogged ==
  \A c \in Callers :
    LET rec == call[c]
    IN (/\ rec.pc = "done" /\ rec.document # None
        /\ rec.documentId \in DOMAIN documents
        /\ ModelFailed(rec) \/ Caught(rec)) =>
         FailedEntries(rec.documentId) # {}

C24_Appended ==
  (\A c \in Callers : call[c].op = "delete" => call'[c] = call[c]) =>
    \A e \in DOMAIN processingLog :
      /\ e \in DOMAIN processingLog'
      /\ processingLog'[e] >= processingLog[e]

\* C24: every failure in a processing run (a failed classification model
\* call, a failed extraction, an unexpected exception) leaves a
\* processing-log entry for that document with status failed, the action
\* name and an error message; log entries are only ever appended, never
\* changed or removed by a processing run.
C24_FailuresLogged == []C24_FailureLogged /\ [][C24_Appended]_vars

\* the checklist key of each conditionally required category and the score
\* below which its documents count as incomplete; evaluateMedicalEvidence
\* names no threshold, 1 stands for the lowest one there could be
OptionalItems ==
  [welfare_benefit |-> [key |-> "welfareBenefit", threshold |-> 70],
   medical |-> [key |-> "medicalEvidence", threshold |-> 1],
   tenancy |-> [key |-> "tenancyAgreement", threshold |-> 60]]

OptionalItemAsStated(category) ==
  LET documentsGiven == The(input).documents
      item == The(output)[OptionalItems[category].key]
      ofCategory == {d \in DOMAIN documentsGiven :
                       documentsGiven[d].category = category}
      below == {d \in ofCategory :
                  documentsGiven[d].completenessScore
                    < OptionalItems[category].threshold}
  IN /\ item.required <=>
          (category = "medical" /\ The(input).requiresSupport)
     /\ IF ofCategory = {}
          THEN /\ item.status = "missing"
               /\ item.issues # {} <=> item.required
          ELSE item.status = IF below # {} THEN "pending" ELSE "verified"

\* C25: for each of welfareBenefit, medicalEvidence and tenancyAgreement:
\* with no document of the category the item is missing (with an issue list
\* only if the item is required); with at least one document it is pending
\* if any of those documents has a completeness score below the category's
\* threshold and verified otherwise; medicalEvidence is required whenever
\* some household member requires support, welfareBenefit and
\* tenancyAgreement are not required by default.
C25_OptionalItems ==
  output # None =>
    \A category \in OptionalCategories : OptionalItemAsStated(category)

\* the field carries the wrapper {value, confidence?}
Wrapped(raw) == raw.type = "object" /\ "value" \in DOMAIN raw.members

Reports(raw) == "confidence" \in DOMAIN raw.members

FieldAsStated(raw, field) ==
  IF raw.type = "null"
    THEN field = [value |-> JsNull, confidence |-> 0]
  ELSE IF Wrapped(raw)
    THEN /\ field.value = raw.members.value
         /\ field.confidence \in 0..100
         /\ ~Reports(raw) => field.confidence = 50
         /\ (Reports(raw) /\ raw.members.confidence.type = "number") =>
              field.confidence =
                Clamp(0, 100, raw.members.confidence.number)
    ELSE field = [value |-> raw, confidence |-> 70]

\* C26: extraction normalises each raw field of the model's answer as
\* follows: null becomes value null with confidence 0; an object with a
\* value key keeps its value and gets its reported confidence clamped into
\* [0,1], the default 0.5 being used only when no confidence was reported;
\* any other value is kept as is with confidence 0.7.
C26_FieldsNormalised ==
  output # None =>
    /\ DOMAIN The(output) = DOMAIN The(input)
    /\ \A key \in DOMAIN The(input) :
         FieldAsStated(The(input)[key], The(output)[key])

\* the storage keys of the bytes of document d: its current key and the
\* keys of its version rows
DocumentKeys(d) ==
  {documents[d].s3Key} \cup {r.s3Key : r \in VersionRows(d)}

C27_DistinctKeys ==
  \A d \in DOMAIN documents, other \in DOMAIN documents :
    d # other => DocumentKeys(d) \cap DocumentKeys(other) = {}

C27_DeleteKeepsOthers ==
  \A c \in Callers :
    (call[c].op = "delete" /\ call[c].pc = "deleting") =>
      \A other \in DOMAIN documents \ {call[c].documentId} :
        \A key \in DocumentKeys(other) \cap DOMAIN blobs :
          key \in DOMAIN blobs'

\* C27: distinct documents never share a storage key, so deleting a
\* document removes only that document's blobs: every blob belonging to
\* another document of the same case, including one uploaded under the same
\* file name, is still in storage after the deletion.
C27_KeysNotShared == []C27_DistinctKeys /\ [][C27_DeleteKeepsOthers]_vars

\* the completeness score the extraction computed for these fields
ScoreComputedFor(fields) ==
  (CHOOSE answer \in ExtractionAnswers :
     answer.ok /\ answer.fields = fields).completenessScore

ExtractedForCategory(d) ==
  documents[d].extractedData # None =>
    /\ The(documents[d].extractedData).documentType = documents[d].category
    /\ documents[d].completenessScore =
         ScoreComputedFor(The(documents[d].extractedData).fields)

\* C28: whenever a document carries extracted data between operations, that
\* data was extracted for the document's current category:
\* extractedData.documentType equals the document's category and the
\* completeness score is the one computed by that extraction; this holds
\* also after a reprocess or a replacement upload whose run skipped
\* extraction or whose extraction failed.
C28_ExtractedDataCurrent ==
  (\A c \in Callers : ~InFlight(c)) =>
    \A d \in DOMAIN documents : ExtractedForCategory(d)

\* the override call of c has answered for a document it found
OverrideReturned(c) ==
  /\ call[c].op = "override" /\ call[c].pc = "done"
  /\ call[c].outcome = "returned"
  /\ call[c].processResult # NotFoundResult
  /\ call[c].documentId \in DOMAIN documents

\* C29: after overrideClassification(id, category) returns, the document's
\* category is the requested category with classification confidence 1.0,
\* whether or not reprocessing was requested with the override.
C29_OverrideKept ==
  \A c \in Callers :
    OverrideReturned(c) =>
      /\ documents[call[c].documentId].category \in OverrideCategories
      /\ documents[call[c].documentId].classificationConfidence = 100

\* the run of c started on a document that has been deleted since
RunOutlivedDocument(c) ==
  /\ call[c].op # "delete" /\ call[c].document # None
  /\ call[c].documentId \notin DOMAIN documents

C30_RunReturns ==
  \A c \in Callers :
    (RunOutlivedDocument(c) /\ call[c].pc = "done") =>
      /\ call[c].outcome = "returned"
      /\ call[c].processResult # None

C30_NoRowsLeft ==
  /\ \A r \in documentVersions \cup extractionVersions :
       r.documentId \in DOMAIN documents
  /\ \A e \in DOMAIN processingLog : e.documentId \in DOMAIN documents

C30_NoRowsMade ==
  \A c \in Callers :
    RunOutlivedDocument(c) => DOMAIN documents' \subseteq DOMAIN documents

\* C30: if deleteDocument for a document completes while a processDocument
\* run for the same document is waiting on storage or on the model, the run
\* still ends by returning a ProcessingResult (it does not raise to its
\* caller), and it creates no document, ExtractionVersion or processing-log
\* row for the deleted document.
C30_DeleteDuringRun ==
  /\ [](C30_RunReturns /\ C30_NoRowsLeft)
  /\ [][C30_NoRowsMade]_vars
====
